---- MODULE Spec2Model ----
(***************************************************************************)
(* Model of the manga worker (src/worker.js): the route handlers with      *)
(* their in-memory Map caches, the provider routing, and the image proxy   *)
(* with its bounded image cache.                                           *)
(*                                                                         *)
(* One request is one task.  A handler runs synchronously up to its first  *)
(* await (the adapter call), so the cache lookup and the hit answer are    *)
(* one step; the code after the await (store and answer, or the catch) is  *)
(* a second step.  Other requests and the clock may move in between.       *)
(***************************************************************************)
EXTENDS Integers, Sequences, FiniteSets, TLC

----------------------------------------------------------------------------
(* Bounds of the model *)

\* number of metadata requests (tasks) of one behaviour
NumTasks == 2
\* number of times the clock advances in one behaviour
MaxTicks == 2
\* number of image requests (proxyImage calls) of one behaviour
NumImages == 2
\* number of times the clock advances in one behaviour of the image proxy
MaxImageTicks == 1
\* the largest number of pages extracted from a chapter document
MaxPages == 3
\* the largest length of a text that is entity-decoded
MaxText == 5

----------------------------------------------------------------------------
(* Configuration: worker.js lines 8-15 *)

\* the table with the duration of the chapter list used for the pages
CACHE_DURATIONS_PagesAsChapters ==
  [search |-> 300000, info |-> 1800000, chapters |-> 900000,
   pages |-> 900000, recent |-> 180000, new |-> 600000]

CACHE_DURATIONS ==
  [search |-> 300000, info |-> 1800000, chapters |-> 900000,
   pages |-> 3600000, recent |-> 180000, new |-> 600000]

\* the in-memory caches, worker.js lines 35-43
CacheNames ==
  {"searchCache", "infoCache", "pagesCache", "recentCache",
   "newMangaCache", "homeCache", "manhwaCache", "comickCache"}

----------------------------------------------------------------------------
(* Inputs *)

\* provider ids a search/info/read handler is called with; the last one has
\* no adapter
ProviderIds == {"mangadex", "mangapill", "invalidprovider"}
\* query / id / slug path parameters
Params == {"naruto"}
\* parsed page numbers
Pages == {1}
\* what an adapter can return for a request (two distinguishable results)
AdapterResults == {"r1", "r2"}
Tasks == 1..NumTasks
Images == 1..NumImages

----------------------------------------------------------------------------
(* State *)

VARIABLES
  caches,      \* cache name -> Map (a function from the stored keys to entries)
  tasks,       \* request -> its position, locals and response
  now,         \* Date.now()
  ticks,       \* number of clock advances so far
  imageCache,  \* the image Map, as the sequence of its entries in Map order
  images,      \* proxyImage call -> its position, locals and response
  call         \* the application of a function of the worker that is examined
               \* on its own: the function, its arguments, what it returned

vars == <<caches, tasks, now, ticks, imageCache, images, call>>
metaVars == <<caches, tasks>>
imageVars == <<imageCache, images>>

\* no function is examined on its own
NoCall == [fn |-> "", input |-> <<>>, output |-> <<>>, returned |-> FALSE, threw |-> FALSE]

\* `cache.get(key)` of an absent key (undefined)
NoEntry == [data |-> "undefined", timestamp |-> -1, writer |-> 0]

NoResponse ==
  [keys |-> {}, status |-> "", cached |-> FALSE, provider |-> "",
   payload |-> "", message |-> "", error |-> ""]

IdleTask ==
  [pc |-> "idle", handler |-> "", provider |-> "", cache |-> "", key |-> "",
   adapter |-> "", now |-> 0, cached |-> NoEntry, lookups |-> 0, fetches |-> 0,
   stores |-> 0, result |-> "", response |-> NoResponse, received |-> <<>>,
   scraped |-> [fallback |-> FALSE, images |-> <<>>],
   timer |-> "none", fetchStart |-> 0, args |-> <<>>]

----------------------------------------------------------------------------
(* Provider routing: worker.js lines 1382-1413 *)

\* a routing that falls back to the default provider
mangaSearchDefault(provider) ==
  CASE provider = "mangadex" -> "mangadexSearch"
    [] OTHER -> "mangapillSearch"

mangaSearch(provider) ==
  CASE provider = "mangadex" -> "mangadexSearch"
    [] provider = "mangapill" -> "mangapillSearch"
    [] OTHER -> "throw"

mangaInfo(provider) ==
  CASE provider = "mangadex" -> "mangadexInfo"
    [] provider = "mangapill" -> "mangapillInfo"
    [] OTHER -> "throw"

mangaRead(provider) ==
  CASE provider = "mangadex" -> "mangadexRead"
    [] provider = "mangapill" -> "mangapillRead"
    [] OTHER -> "throw"

UnsupportedMessage(provider) ==
  "Provider '" \o provider \o "' is not supported or not yet implemented"

\* the message of the Error an adapter throws from its catch block
AdapterMessage(adapter) ==
  CASE adapter \in {"mangapillSearch", "komikstationManhwaSearch"} -> "Search failed: fetch failed"
    [] adapter = "mangadexSearch" -> "MangaDex search failed: fetch failed"
    [] adapter \in {"mangapillInfo", "mangadexInfo"} -> "Failed to fetch manga info: fetch failed"
    [] adapter \in {"mangapillRead", "mangadexRead"} -> "Failed to fetch chapter pages: fetch failed"
    [] adapter = "mangapillAdvancedSearch" -> "Advanced search failed: fetch failed"
    [] adapter = "mangapillRecentChapters" -> "Failed to fetch recent chapters: fetch failed"
    [] adapter = "mangapillNewManga" -> "Failed to fetch new manga: fetch failed"
    [] adapter \in {"mangapillHomeData", "mangapillTrending"} -> "Failed to fetch home data: fetch failed"
    [] adapter = "komikstationManhwaPopular" -> "Failed to fetch manhwa popular: fetch failed"
    [] adapter = "komikstationManhwaOngoing" -> "Failed to fetch manhwa ongoing: fetch failed"
    [] adapter = "komikstationManhwaDetail" -> "Failed to fetch manhwa detail: fetch failed"
    [] adapter = "komikstationManhwaChapter" -> "Failed to fetch chapter: fetch failed"
    [] adapter = "komikstationManhwaGenres" -> "Failed to fetch genres: fetch failed"
    [] adapter = "komikstationManhwaByGenre" -> "Failed to fetch genre: fetch failed"
    [] adapter = "comickSearch" -> "ComicK search failed: fetch failed"
    [] adapter = "comickInfo" -> "ComicK info failed: fetch failed"
    [] adapter = "comickChapter" -> "ComicK chapter failed: fetch failed"
    [] OTHER -> "fetch failed"

----------------------------------------------------------------------------
(* Response envelopes: jsonResponse / errorResponse and the object literals  *)
(* of the handlers.  keys is the set of top-level fields of the JSON body    *)
(* (the constant `creator` left out); payload is the adapter result the body *)
(* carries, spread into the body or under data / results.                    *)

SearchFields == {"currentPage", "hasNextPage", "results"}
HomeFields ==
  {"name", "version", "provider", "featuredChapters", "trendingManga",
   "timestamp", "endpoints"}

\* per handler: its cache, its TTL, how the result is placed in the body
\* ("spread": ...result, "data": data: result, "results": results), the
\* fields of a spread result, the fields a miss adds next to status, and
\* the provider literal of the miss body ("" = the provider argument)
Route(h) ==
  CASE h = "handleApiHome" ->
         [cache |-> "homeCache", ttl |-> CACHE_DURATIONS.search, shape |-> "spread",
          fields |-> HomeFields, miss |-> {}, provider |-> "mangapill"]
    [] h = "handleSearch" ->
         [cache |-> "searchCache", ttl |-> CACHE_DURATIONS.search, shape |-> "spread",
          fields |-> SearchFields, miss |-> {"provider", "query", "page"}, provider |-> ""]
    [] h = "handleInfo" ->
         [cache |-> "infoCache", ttl |-> CACHE_DURATIONS.info, shape |-> "data",
          fields |-> {}, miss |-> {"provider"}, provider |-> ""]
    [] h = "handleRead" ->
         [cache |-> "pagesCache", ttl |-> CACHE_DURATIONS.pages, shape |-> "data",
          fields |-> {}, miss |-> {"provider"}, provider |-> ""]
    [] h = "handleAdvancedSearch" ->
         [cache |-> "searchCache", ttl |-> CACHE_DURATIONS.search, shape |-> "spread",
          fields |-> SearchFields \cup {"filters"}, miss |-> {"provider"},
          provider |-> "mangapill"]
    [] h = "handleRecentChapters" ->
         [cache |-> "recentCache", ttl |-> CACHE_DURATIONS.recent, shape |-> "spread",
          fields |-> SearchFields, miss |-> {"provider"}, provider |-> "mangapill"]
    [] h = "handleNewManga" ->
         [cache |-> "newMangaCache", ttl |-> CACHE_DURATIONS.new, shape |-> "spread",
          fields |-> SearchFields, miss |-> {"provider"}, provider |-> "mangapill"]
    [] h = "handleTrending" ->
         [cache |-> "homeCache", ttl |-> CACHE_DURATIONS.search, shape |-> "results",
          fields |-> {}, miss |-> {"provider"}, provider |-> "mangapill"]
    [] h \in {"handleManhwaPopular", "handleManhwaOngoing"} ->
         [cache |-> "manhwaCache", ttl |-> CACHE_DURATIONS.search, shape |-> "spread",
          fields |-> SearchFields, miss |-> {"provider"}, provider |-> "komikstation"]
    [] h = "handleManhwaDetail" ->
         [cache |-> "manhwaCache", ttl |-> CACHE_DURATIONS.info, shape |-> "data",
          fields |-> {}, miss |-> {"provider"}, provider |-> "komikstation"]
    [] h = "handleManhwaChapter" ->
         [cache |-> "manhwaCache", ttl |-> CACHE_DURATIONS.pages, shape |-> "data",
          fields |-> {}, miss |-> {"provider"}, provider |-> "komikstation"]
    [] h = "handleManhwaSearch" ->
         [cache |-> "manhwaCache", ttl |-> CACHE_DURATIONS.search, shape |-> "spread",
          fields |-> SearchFields, miss |-> {"provider", "query"},
          provider |-> "komikstation"]
    [] h = "handleManhwaGenres" ->
         [cache |-> "manhwaCache", ttl |-> CACHE_DURATIONS.search, shape |-> "spread",
          fields |-> {"genres"}, miss |-> {"provider"}, provider |-> "komikstation"]
    [] h = "handleManhwaGenre" ->
         [cache |-> "manhwaCache", ttl |-> CACHE_DURATIONS.search, shape |-> "spread",
          fields |-> SearchFields \cup {"genreId"}, miss |-> {"provider"},
          provider |-> "komikstation"]
    [] h = "handleComickSearch" ->
         [cache |-> "comickCache", ttl |-> CACHE_DURATIONS.search, shape |-> "spread",
          fields |-> SearchFields \cup {"nextCursor"}, miss |-> {"provider", "query"},
          provider |-> "comick"]
    [] h = "handleComickInfo" ->
         [cache |-> "comickCache", ttl |-> CACHE_DURATIONS.info, shape |-> "data",
          fields |-> {}, miss |-> {"provider"}, provider |-> "comick"]
    [] h = "handleComickChapter" ->
         [cache |-> "comickCache", ttl |-> CACHE_DURATIONS.pages, shape |-> "data",
          fields |-> {}, miss |-> {"provider"}, provider |-> "comick"]

\* the fields under which the body carries the result
PayloadKeys(h) ==
  CASE Route(h).shape = "spread" -> Route(h).fields
    [] Route(h).shape = "data" -> {"data"}
    [] Route(h).shape = "results" -> {"results"}

\* the value of the body's provider field, when it has one: a spread result
\* that has a provider field of its own comes last and wins
BodyProvider(h, provider) ==
  IF Route(h).shape = "spread" /\ "provider" \in Route(h).fields THEN "mangapill"
  ELSE IF Route(h).provider = "" THEN provider ELSE Route(h).provider

\* a hit body without the cached flag
HitEnvelopeUnflagged(h, cached) ==
  [keys |-> {"status"} \cup PayloadKeys(h),
   status |-> "success", cached |-> FALSE,
   provider |-> IF "provider" \in PayloadKeys(h) THEN BodyProvider(h, "") ELSE "",
   payload |-> cached.data, message |-> "", error |-> ""]

\* jsonResponse({ status: 'success', cached: true, ...cached.data | data: cached.data })
HitEnvelope(h, cached) ==
  [keys |-> {"status", "cached"} \cup PayloadKeys(h),
   status |-> "success", cached |-> TRUE,
   provider |-> IF "provider" \in PayloadKeys(h) THEN BodyProvider(h, "") ELSE "",
   payload |-> cached.data, message |-> "", error |-> ""]

\* a miss body that is flagged as served from the cache
MissEnvelopeAsHit(h, provider, result) ==
  [keys |-> {"status", "cached"} \cup PayloadKeys(h),
   status |-> "success", cached |-> TRUE,
   provider |-> IF "provider" \in PayloadKeys(h) THEN BodyProvider(h, provider) ELSE "",
   payload |-> result, message |-> "", error |-> ""]

\* a miss body that carries cached: false
MissEnvelopeFlagged(h, provider, result) ==
  [keys |-> {"status", "cached"} \cup Route(h).miss \cup PayloadKeys(h),
   status |-> "success", cached |-> FALSE,
   provider |-> IF "provider" \in Route(h).miss \cup PayloadKeys(h)
                THEN BodyProvider(h, provider) ELSE "",
   payload |-> result, message |-> "", error |-> ""]

\* jsonResponse({ status: 'success', provider, ..., ...result | data: result })
MissEnvelope(h, provider, result) ==
  [keys |-> {"status"} \cup Route(h).miss \cup PayloadKeys(h),
   status |-> "success", cached |-> FALSE,
   provider |-> IF "provider" \in Route(h).miss \cup PayloadKeys(h)
                THEN BodyProvider(h, provider) ELSE "",
   payload |-> result, message |-> "", error |-> ""]

\* errorResponse(error.message, 500): worker.js lines 139-144
errorResponse(message) ==
  [keys |-> {"status", "message"}, status |-> "error", cached |-> FALSE,
   provider |-> "", payload |-> "", message |-> message, error |-> ""]

\* the catch block of handleApiHome: "Return basic info on error"
HomeFallback(message) ==
  [keys |-> {"status", "name", "version", "error", "endpoints"},
   status |-> "success", cached |-> FALSE, provider |-> "", payload |-> "",
   message |-> "", error |-> message]

\* every catch block answering like the one of handleApiHome
CatchEnvelopeBasicInfo(h, message) == HomeFallback(message)

\* what the catch block of handler h answers
CatchEnvelope(h, message) ==
  IF h = "handleApiHome" THEN HomeFallback(message) ELSE errorResponse(message)

----------------------------------------------------------------------------
(* The Map caches *)

\* cache.get(key)
CacheGet(c, key) == IF key \in DOMAIN caches[c] THEN caches[c][key] ELSE NoEntry

\* map.set(key, entry)
CacheSet(map, key, entry) ==
  [k \in DOMAIN map \cup {key} |-> IF k = key THEN entry ELSE map[k]]

\* the comparison turned around
IsFreshReversed(cached, time, ttl) == cached # NoEntry /\ time - cached.timestamp > ttl

\* the comparison with <= for <
IsFreshInclusive(cached, time, ttl) == cached # NoEntry /\ time - cached.timestamp <= ttl

\* cached && now - cached.timestamp < ttl
IsFresh(cached, time, ttl) == cached # NoEntry /\ time - cached.timestamp < ttl

\* an entry stamped with the clock reading at the time of the store
NewEntryAtStore(t, result) == [data |-> result, timestamp |-> now, writer |-> t]

\* { data: result, timestamp: now }: now is the constant read at the start of
\* the handler; writer is a history field (the request that stored the entry)
NewEntry(t, result) == [data |-> result, timestamp |-> tasks[t].now, writer |-> t]

\* a store that keeps an entry with a later timestamp
StoreResultKeepNewest(t, result) ==
  IF CacheGet(tasks[t].cache, tasks[t].key).timestamp > tasks[t].now
  THEN caches
  ELSE [caches EXCEPT ![tasks[t].cache] = CacheSet(@, tasks[t].key, NewEntry(t, result))]

\* the caches after the try block of request t completed with result
StoreResult(t, result) ==
  [caches EXCEPT ![tasks[t].cache] = CacheSet(@, tasks[t].key, NewEntry(t, result))]

\* a catch block that stores the failure
CatchCachesPoisoned(t) ==
  [caches EXCEPT ![tasks[t].cache] =
     CacheSet(@, tasks[t].key, [data |-> "error", timestamp |-> tasks[t].now, writer |-> t])]

\* the caches after the catch block of request t ran
CatchCaches(t) == caches

----------------------------------------------------------------------------
(* The handlers up to their first await.  Requests are numbered in the      *)
(* order in which they arrive.  No handler reads or writes a key of another  *)
(* handler, so one behaviour follows the requests that go to one handler.   *)

\* setTimeout(() => controller.abort(), 15000): worker.js lines 813, 860
FETCH_TIMEOUT == 15000

\* the adapters that arm an abort timer before their fetch
TimedAdapters == {"komikstationManhwaPopular", "komikstationManhwaOngoing"}

\* clearTimeout(timeoutId)
ClearTimer(timer) == IF timer = "armed" THEN "cleared" ELSE timer

Handle(t, h, provider, adapter, key, args) ==
  /\ tasks[t].pc = "idle"
  /\ \A u \in Tasks : u < t => tasks[u].pc # "idle" /\ tasks[u].handler = h
  /\ LET cached == CacheGet(Route(h).cache, key)
         entered == [tasks[t] EXCEPT !.handler = h, !.provider = provider,
                       !.cache = Route(h).cache, !.key = key, !.adapter = adapter,
                       !.now = now, !.cached = cached, !.lookups = 1, !.args = args]
     IN  tasks' = [tasks EXCEPT ![t] =
           IF IsFresh(cached, now, Route(h).ttl)
           THEN [entered EXCEPT !.pc = "done", !.response = HitEnvelope(h, cached)]
           ELSE IF adapter = "throw"
           THEN [entered EXCEPT !.pc = "done",
                   !.response = CatchEnvelope(h, UnsupportedMessage(provider))]
           ELSE [entered EXCEPT !.pc = "await", !.fetches = 1, !.fetchStart = now,
                   !.timer = IF adapter \in TimedAdapters THEN "armed" ELSE "none"]]
  /\ UNCHANGED <<caches, now, ticks, imageVars, call>>

handleApiHome(t) ==
  Handle(t, "handleApiHome", "mangapill", "mangapillHomeData", "home",
         <<>>)

handleSearch(t, provider, query, page) ==
  Handle(t, "handleSearch", provider, mangaSearch(provider),
         "search:" \o provider \o ":" \o query \o ":" \o ToString(page),
         <<provider, query, page>>)

handleInfo(t, provider, mangaId) ==
  Handle(t, "handleInfo", provider, mangaInfo(provider),
         "info:" \o provider \o ":" \o mangaId,
         <<provider, mangaId>>)

handleRead(t, provider, chapterId) ==
  Handle(t, "handleRead", provider, mangaRead(provider),
         "pages:" \o provider \o ":" \o chapterId,
         <<provider, chapterId>>)

handleAdvancedSearch(t, query, genre, type, status, page) ==
  Handle(t, "handleAdvancedSearch", "mangapill", "mangapillAdvancedSearch",
         "advsearch:" \o query \o ":" \o genre \o ":" \o type \o ":" \o status
           \o ":" \o ToString(page),
         <<query, genre, type, status, page>>)

handleRecentChapters(t, page) ==
  Handle(t, "handleRecentChapters", "mangapill", "mangapillRecentChapters",
         "recent:" \o ToString(page),
         <<page>>)

handleNewManga(t, page) ==
  Handle(t, "handleNewManga", "mangapill", "mangapillNewManga",
         "new:" \o ToString(page),
         <<page>>)

handleTrending(t) ==
  Handle(t, "handleTrending", "mangapill", "mangapillTrending", "trending",
         <<>>)

handleManhwaPopular(t, page) ==
  Handle(t, "handleManhwaPopular", "komikstation", "komikstationManhwaPopular",
         "manhwa_popular:" \o ToString(page),
         <<page>>)

handleManhwaOngoing(t, page) ==
  Handle(t, "handleManhwaOngoing", "komikstation", "komikstationManhwaOngoing",
         "manhwa_ongoing:" \o ToString(page),
         <<page>>)

handleManhwaDetail(t, manhwaId) ==
  Handle(t, "handleManhwaDetail", "komikstation", "komikstationManhwaDetail",
         "manhwa_detail:" \o manhwaId,
         <<manhwaId>>)

handleManhwaChapter(t, chapterId) ==
  Handle(t, "handleManhwaChapter", "komikstation", "komikstationManhwaChapter",
         "manhwa_chapter:" \o chapterId,
         <<chapterId>>)

handleManhwaSearch(t, query, page) ==
  Handle(t, "handleManhwaSearch", "komikstation", "komikstationManhwaSearch",
         "manhwa_search:" \o query \o ":" \o ToString(page),
         <<query, page>>)

handleManhwaGenres(t) ==
  Handle(t, "handleManhwaGenres", "komikstation", "komikstationManhwaGenres",
         "manhwa_genres",
         <<>>)

handleManhwaGenre(t, genreId, page) ==
  Handle(t, "handleManhwaGenre", "komikstation", "komikstationManhwaByGenre",
         "manhwa_genre:" \o genreId \o ":" \o ToString(page),
         <<genreId, page>>)

handleComickSearch(t, query, page) ==
  Handle(t, "handleComickSearch", "comick", "comickSearch",
         "comick_search:" \o query \o ":" \o ToString(page),
         <<query, page>>)

handleComickInfo(t, slug) ==
  Handle(t, "handleComickInfo", "comick", "comickInfo", "comick_info:" \o slug,
         <<slug>>)

handleComickChapter(t, chapterId) ==
  Handle(t, "handleComickChapter", "comick", "comickChapter",
         "comick_chapter:" \o chapterId,
         <<chapterId>>)

----------------------------------------------------------------------------
(* The handlers after the await *)

\* the adapter returned: cache.set(cacheKey, { data: result, timestamp: now })
\* and the success answer
AdapterReturns(t, result) ==
  /\ tasks[t].pc = "await"
  /\ caches' = StoreResult(t, result)
  /\ tasks' = [tasks EXCEPT ![t] =
       [@ EXCEPT !.pc = "done", !.stores = @ + 1, !.result = result,
          !.timer = ClearTimer(@),
          !.response = MissEnvelope(tasks[t].handler, tasks[t].provider, result)]]
  /\ UNCHANGED <<now, ticks, imageVars, call>>

\* a fetch that is issued again when it threw
AdapterThrowsRetrying(t) ==
  /\ tasks[t].pc = "await"
  /\ caches' = caches
  /\ tasks' = [tasks EXCEPT ![t] =
       IF tasks[t].fetches < 3
       THEN [@ EXCEPT !.fetches = @ + 1]
       ELSE [@ EXCEPT !.pc = "done",
               !.response = CatchEnvelope(tasks[t].handler, AdapterMessage(tasks[t].adapter))]]
  /\ UNCHANGED <<now, ticks, imageVars, call>>

\* the adapter threw: the catch block
AdapterThrows(t) ==
  /\ tasks[t].pc = "await"
  /\ caches' = CatchCaches(t)
  /\ tasks' = [tasks EXCEPT ![t] =
       [@ EXCEPT !.pc = "done",
          !.response = CatchEnvelope(tasks[t].handler, AdapterMessage(tasks[t].adapter))]]
  /\ UNCHANGED <<now, ticks, imageVars, call>>

\* by how much the clock advances between two events (milliseconds): by one,
\* or to one short of the cache duration of a handler that has been called
Deltas ==
  {1} \cup {Route(tasks[u].handler).ttl - 1 : u \in {v \in Tasks : tasks[v].pc # "idle"}}

\* time passes
Tick(d) ==
  /\ ticks < MaxTicks
  /\ now' = now + d
  /\ ticks' = ticks + 1
  /\ UNCHANGED <<caches, tasks, imageVars, call>>

----------------------------------------------------------------------------
(* Image proxy: worker.js lines 1136-1219 and the prefetch route 2647-2660 *)

IMAGE_CACHE_DURATION == 3600000
MAX_IMAGE_CACHE_SIZE == 100
\* urls.slice(0, 20) of /api/proxy/prefetch
PREFETCH_LIMIT == 20

\* image URLs are numbered; 0 is the missing url parameter (null)
NoUrl == 0
\* URLs that are requested: the one the warm-up caches first, the one that
\* takes the last slot of the cache, and one beyond the capacity
RequestUrls == {1, MAX_IMAGE_CACHE_SIZE, MAX_IMAGE_CACHE_SIZE + 1}
\* what the upstream answers with status 2xx: the bytes and the Content-Type
\* header ("" = no header)
UpstreamImages ==
  {[data |-> "b1", contentType |-> ""], [data |-> "b2", contentType |-> "image/png"]}
\* upstream statuses with !response.ok
FailureStatuses == {404}
\* by how much the clock advances: to one short of the cache duration, or to it
ImageDeltas == {IMAGE_CACHE_DURATION - 1, IMAGE_CACHE_DURATION}
\* sizes to which the warm-up fills the cache
WarmSizes == {MAX_IMAGE_CACHE_SIZE - 1, MAX_IMAGE_CACHE_SIZE}

\* imageCache.get(url) of an absent URL (undefined).  born is a history field:
\* the rank of the entry's key among the keys ever inserted into the Map
NoImage ==
  [url |-> NoUrl, data |-> "undefined", contentType |-> "", timestamp |-> -1, born |-> 0]

IdleImage ==
  [pc |-> "idle", url |-> NoUrl, fetches |-> 0, status |-> 0, xcache |-> "",
   data |-> "", contentType |-> ""]

\* imageCache.get(imageUrl)
ImageGet(cache, url) ==
  IF \E k \in DOMAIN cache : cache[k].url = url
  THEN cache[CHOOSE k \in DOMAIN cache : cache[k].url = url]
  ELSE NoImage

\* the age test with <= for <
ImageFreshInclusive(cached, time) ==
  cached # NoImage /\ time - cached.timestamp <= IMAGE_CACHE_DURATION

\* cached && Date.now() - cached.timestamp < IMAGE_CACHE_DURATION
ImageFresh(cached, time) ==
  cached # NoImage /\ time - cached.timestamp < IMAGE_CACHE_DURATION

\* the size test with > for >=
EvictOldestLate(cache) ==
  IF Len(cache) > MAX_IMAGE_CACHE_SIZE /\ Len(cache) > 0 THEN Tail(cache) ELSE cache

\* deleting the last key of the Map instead of the first
EvictNewest(cache) ==
  IF Len(cache) >= MAX_IMAGE_CACHE_SIZE /\ Len(cache) > 0
  THEN SubSeq(cache, 1, Len(cache) - 1) ELSE cache

\* if (imageCache.size >= MAX_IMAGE_CACHE_SIZE) delete the first key of the Map
EvictOldest(cache) ==
  IF Len(cache) >= MAX_IMAGE_CACHE_SIZE /\ Len(cache) > 0 THEN Tail(cache) ELSE cache

\* the rank the next inserted key gets
NextBorn(cache) == IF cache = <<>> THEN 1 ELSE cache[Len(cache)].born + 1

\* imageCache.set(imageUrl, entry): a present key keeps its place in the Map
\* order (and its rank), a new key goes last
ImageSet(cache, entry) ==
  IF \E k \in DOMAIN cache : cache[k].url = entry.url
  THEN [k \in DOMAIN cache |->
         IF cache[k].url = entry.url THEN [entry EXCEPT !.born = cache[k].born]
         ELSE cache[k]]
  ELSE Append(cache, [entry EXCEPT !.born = NextBorn(cache)])

\* the "Cache the image (limit cache size)" block
ImageStore(cache, entry) == ImageSet(EvictOldest(cache), entry)

\* response.headers.get('Content-Type') || 'image/jpeg'
ContentTypeOf(header) == IF header = "" THEN "image/jpeg" ELSE header

\* proxyImage up to its first await, for one call
ImageEnter(imageUrl) ==
  LET cached == ImageGet(imageCache, imageUrl)
      entered == [IdleImage EXCEPT !.url = imageUrl]
  IN  IF imageUrl = NoUrl
      THEN [entered EXCEPT !.pc = "done", !.status = 400]
      ELSE IF ImageFresh(cached, now)
      THEN [entered EXCEPT !.pc = "done", !.status = 200, !.xcache = "HIT",
              !.data = cached.data, !.contentType = cached.contentType]
      ELSE [entered EXCEPT !.pc = "fetch", !.fetches = 1]

\* GET /api/v1/image?url=...
proxyImage(i, imageUrl) ==
  /\ images[i].pc = "idle"
  /\ \A j \in Images : j < i => images[j].pc # "idle"
  /\ images' = [images EXCEPT ![i] = ImageEnter(imageUrl)]
  /\ UNCHANGED <<imageCache, now, ticks, metaVars, call>>

\* urls.slice(0, 20)
Slice(urls) ==
  SubSeq(urls, 1, IF Len(urls) < PREFETCH_LIMIT THEN Len(urls) ELSE PREFETCH_LIMIT)

\* GET /api/proxy/prefetch?urls=... with n URLs: Promise.all over proxyImage
\* of the first PREFETCH_LIMIT of them; every call runs to its first await
\* before any fetch completes.  The calls take the request slots i, i+1, ...
prefetch(i, n) ==
  /\ n >= 2
  /\ \A j \in Images : (j < i => images[j].pc # "idle") /\ (j >= i => images[j].pc = "idle")
  /\ \E urls \in [1..n -> RequestUrls] :
       LET imageUrls == Slice(urls)
           batch == i..(i + Len(imageUrls) - 1)
       IN  /\ batch \subseteq Images
           /\ images' = [j \in Images |->
                IF j \in batch THEN ImageEnter(imageUrls[j - i + 1]) ELSE images[j]]
  /\ UNCHANGED <<imageCache, now, ticks, metaVars, call>>

\* the upstream answered 2xx and the body arrived: store and answer MISS
ImageFetched(i, upstream) ==
  /\ images[i].pc = "fetch"
  /\ LET contentType == ContentTypeOf(upstream.contentType) IN
     /\ imageCache' = ImageStore(imageCache,
          [url |-> images[i].url, data |-> upstream.data,
           contentType |-> contentType, timestamp |-> now, born |-> 0])
     /\ images' = [images EXCEPT ![i] =
          [@ EXCEPT !.pc = "done", !.status = 200, !.xcache = "MISS",
             !.data = upstream.data, !.contentType = contentType]]
  /\ UNCHANGED <<now, ticks, metaVars, call>>

\* a failure answer that drops the entry the cache holds for the URL
ImageNotOkDropping(i, status) ==
  /\ images[i].pc = "fetch"
  /\ images' = [images EXCEPT ![i] = [@ EXCEPT !.pc = "done", !.status = status]]
  /\ imageCache' = SelectSeq(imageCache, LAMBDA e : e.url # images[i].url)
  /\ UNCHANGED <<now, ticks, metaVars, call>>

\* if (!response.ok) return new Response(..., { status: response.status })
ImageNotOk(i, status) ==
  /\ images[i].pc = "fetch"
  /\ images' = [images EXCEPT ![i] = [@ EXCEPT !.pc = "done", !.status = status]]
  /\ UNCHANGED <<imageCache, now, ticks, metaVars, call>>

\* fetch or arrayBuffer threw: the catch block answers 500
ImageThrows(i) ==
  /\ images[i].pc = "fetch"
  /\ images' = [images EXCEPT ![i] = [@ EXCEPT !.pc = "done", !.status = 500]]
  /\ UNCHANGED <<imageCache, now, ticks, metaVars, call>>

\* the Map after the image requests for the distinct URLs lo..hi, each
\* completed (a MISS) before the next one arrived, all at the same clock
\* reading.  The stores happen in the order lo, lo+1, ..., hi; the range is
\* halved only to keep the evaluation shallow, and the first half is
\* evaluated (Len) before the second half starts from it.
RECURSIVE Warmed(_, _, _, _)
Warmed(cache, lo, hi, time) ==
  IF lo > hi THEN cache
  ELSE IF lo = hi
  THEN ImageStore(cache,
         [url |-> lo, data |-> "b1", contentType |-> "image/jpeg", timestamp |-> time,
          born |-> 0])
  ELSE LET mid == (lo + hi) \div 2
           first == Warmed(cache, lo, mid, time)
       IN  IF Len(first) >= 0 THEN Warmed(first, mid + 1, hi, time) ELSE first

\* n such requests, one after the other, on the empty cache of a worker that
\* has just started
WarmUp(n) ==
  /\ imageCache = <<>>
  /\ ticks = 0
  /\ \A i \in Images : images[i].pc = "idle"
  /\ imageCache' = Warmed(imageCache, 1, n, now)
  /\ UNCHANGED <<images, now, ticks, metaVars, call>>

ImageTick(d) ==
  /\ ticks < MaxImageTicks
  /\ now' = now + d
  /\ ticks' = ticks + 1
  /\ UNCHANGED <<metaVars, imageVars, call>>

----------------------------------------------------------------------------
(* Specification *)

Init ==
  /\ caches = [c \in CacheNames |-> <<>>]
  /\ tasks = [t \in Tasks |-> IdleTask]
  /\ now = 0
  /\ ticks = 0
  /\ imageCache = <<>>
  /\ images = [i \in Images |-> IdleImage]
  /\ call = NoCall

Next ==
  \/ \E t \in Tasks : handleApiHome(t)
  \/ \E t \in Tasks, p \in ProviderIds, q \in Params, n \in Pages : handleSearch(t, p, q, n)
  \/ \E t \in Tasks, p \in ProviderIds, q \in Params : handleInfo(t, p, q)
  \/ \E t \in Tasks, p \in ProviderIds, q \in Params : handleRead(t, p, q)
  \/ \E t \in Tasks, q \in Params, n \in Pages : handleAdvancedSearch(t, q, "", "", "", n)
  \/ \E t \in Tasks, n \in Pages : handleRecentChapters(t, n)
  \/ \E t \in Tasks, n \in Pages : handleNewManga(t, n)
  \/ \E t \in Tasks : handleTrending(t)
  \/ \E t \in Tasks, n \in Pages : handleManhwaPopular(t, n)
  \/ \E t \in Tasks, n \in Pages : handleManhwaOngoing(t, n)
  \/ \E t \in Tasks, q \in Params : handleManhwaDetail(t, q)
  \/ \E t \in Tasks, q \in Params : handleManhwaChapter(t, q)
  \/ \E t \in Tasks, q \in Params, n \in Pages : handleManhwaSearch(t, q, n)
  \/ \E t \in Tasks : handleManhwaGenres(t)
  \/ \E t \in Tasks, q \in Params, n \in Pages : handleManhwaGenre(t, q, n)
  \/ \E t \in Tasks, q \in Params, n \in Pages : handleComickSearch(t, q, n)
  \/ \E t \in Tasks, q \in Params : handleComickInfo(t, q)
  \/ \E t \in Tasks, q \in Params : handleComickChapter(t, q)
  \/ \E t \in Tasks, r \in AdapterResults : AdapterReturns(t, r)
  \/ \E t \in Tasks : AdapterThrows(t)
  \/ \E d \in Deltas : Tick(d)

Spec == Init /\ [][Next]_vars

ImageNext ==
  \/ \E i \in Images, u \in RequestUrls : proxyImage(i, u)
  \/ \E i \in Images, n \in 2..NumImages : prefetch(i, n)
  \/ \E i \in Images, up \in UpstreamImages : ImageFetched(i, up)
  \/ \E i \in Images, st \in FailureStatuses : ImageNotOk(i, st)
  \/ \E i \in Images : ImageThrows(i)
  \/ \E n \in WarmSizes : WarmUp(n)
  \/ \E d \in ImageDeltas : ImageTick(d)

ImageSpec == Init /\ [][ImageNext]_vars

----------------------------------------------------------------------------
(* The adapters: what each one does with the responses of its upstream.     *)
(* worker.js lines 242-1128 and 1225-1376                                    *)

\* what an upstream answers.  ok is response.ok; the body is
\*   "good":    the document the adapter is written for (the HTML page with
\*              its items, the JSON document with its data),
\*   "errjson": a JSON document without that data ({result: 'error', ...}),
\*   "html":    an HTML error page: no JSON, and nothing a pattern matches
Bodies == {"good", "errjson", "html"}
Responses == [ok : BOOLEAN, body : Bodies]

\* the adapters that scrape HTML with patterns and return what matched
Scrapers ==
  {"mangapillSearch", "mangapillInfo", "mangapillRead", "mangapillAdvancedSearch",
   "mangapillRecentChapters", "mangapillNewManga", "mangapillHomeData",
   "mangapillTrending", "komikstationManhwaPopular", "komikstationManhwaOngoing",
   "komikstationManhwaDetail", "komikstationManhwaSearch", "komikstationManhwaGenres",
   "komikstationManhwaByGenre"}

\* the number of upstream fetches in the code of an adapter
FetchCount(adapter) == IF adapter \in {"mangadexInfo", "comickInfo"} THEN 2 ELSE 1

\* the text the catch block of an adapter puts before the message
ErrorPrefix(adapter) ==
  CASE adapter \in {"mangapillSearch", "komikstationManhwaSearch"} -> "Search failed: "
    [] adapter = "mangadexSearch" -> "MangaDex search failed: "
    [] adapter \in {"mangapillInfo", "mangadexInfo"} -> "Failed to fetch manga info: "
    [] adapter \in {"mangapillRead", "mangadexRead"} -> "Failed to fetch chapter pages: "
    [] adapter = "mangapillAdvancedSearch" -> "Advanced search failed: "
    [] adapter = "mangapillRecentChapters" -> "Failed to fetch recent chapters: "
    [] adapter = "mangapillNewManga" -> "Failed to fetch new manga: "
    [] adapter \in {"mangapillHomeData", "mangapillTrending"} -> "Failed to fetch home data: "
    [] adapter = "komikstationManhwaPopular" -> "Failed to fetch manhwa popular: "
    [] adapter = "komikstationManhwaOngoing" -> "Failed to fetch manhwa ongoing: "
    [] adapter = "komikstationManhwaDetail" -> "Failed to fetch manhwa detail: "
    [] adapter = "komikstationManhwaChapter" -> "Failed to fetch chapter: "
    [] adapter = "komikstationManhwaGenres" -> "Failed to fetch genres: "
    [] adapter = "komikstationManhwaByGenre" -> "Failed to fetch genre: "
    [] adapter = "comickSearch" -> "ComicK search failed: "
    [] adapter = "comickInfo" -> "ComicK info failed: "
    [] adapter = "comickChapter" -> "ComicK chapter failed: "
    [] OTHER -> ""

\* outcomes of one step of an adapter
Returns(value) == [kind |-> "return", value |-> value]
Throws(adapter, message) == [kind |-> "throw", value |-> ErrorPrefix(adapter) \o message]
FetchesNext == [kind |-> "next", value |-> ""]

\* messages of errors the JavaScript engine raises
SyntaxErrorMessage == "Unexpected token '<' is not valid JSON"
TypeErrorMessage == "Cannot read properties of undefined"
\* `MangaDex API returned ${response.status}: ${response.statusText}`
NotOkMessage == "MangaDex API returned 503: Service Unavailable"

\* the first statements of the three MangaDex adapters: the response.ok
\* test, JSON.parse of the text, and the data.result === 'error' test
\* (mangadexRead has no such test and reads data.chapter.hash)
MangadexChecked(adapter, response, onGood) ==
  IF ~response.ok THEN Throws(adapter, NotOkMessage)
  ELSE IF response.body = "html"
  THEN Throws(adapter,
         IF adapter = "mangadexSearch"
         THEN "MangaDex API returned invalid response (possibly rate limited)"
         ELSE "MangaDex API returned invalid response")
  ELSE IF response.body = "errjson"
  THEN Throws(adapter,
         IF adapter = "mangadexRead" THEN TypeErrorMessage ELSE "MangaDex API error")
  ELSE onGood

\* `await response.json()` and the use of the document, with no test of
\* response.ok: a body that is no JSON throws, a JSON document without the
\* data gives onNoData
JsonUnchecked(adapter, response, onGood, onNoData) ==
  CASE response.body = "html" -> Throws(adapter, SyntaxErrorMessage)
    [] response.body = "errjson" -> onNoData
    [] response.body = "good" -> onGood

\* adapters that treat a document in which nothing matches as a failure
AdapterStepStrict(adapter, k, response) ==
  IF response.body = "good" THEN Returns("items")
  ELSE Throws(adapter, "No results found")

\* what the adapter does with the response to its k-th fetch
AdapterStep(adapter, k, response) ==
  CASE adapter \in Scrapers ->
         \* html = await response.text(), then the patterns: no test of
         \* response.ok, and no error when nothing matches
         Returns(IF response.body = "good" THEN "items" ELSE "empty")
    [] adapter = "komikstationManhwaChapter" ->
         IF response.body = "good" THEN Returns("items")
         ELSE Throws(adapter, "Chapter images not found")
    [] adapter = "comickSearch" ->
         JsonUnchecked(adapter, response, Returns("items"), Returns("empty"))
    [] adapter = "comickInfo" /\ k = 1 ->
         IF response.body = "good" THEN FetchesNext
         ELSE Throws(adapter, "Comic data not found")
    [] adapter = "comickInfo" /\ k # 1 ->
         JsonUnchecked(adapter, response, Returns("items"), Returns("no chapters"))
    [] adapter = "comickChapter" ->
         JsonUnchecked(adapter, response, Returns("items"),
                       Throws(adapter, "Chapter images not found"))
    [] adapter = "mangadexSearch" ->
         MangadexChecked(adapter, response, Returns("items"))
    [] adapter = "mangadexInfo" /\ k = 1 ->
         MangadexChecked(adapter, response, FetchesNext)
    [] adapter = "mangadexInfo" /\ k # 1 ->
         JsonUnchecked(adapter, response, Returns("items"),
                       Throws(adapter, TypeErrorMessage))
    [] adapter = "mangadexRead" ->
         MangadexChecked(adapter, response, Returns("items"))

\* the upstream answers the fetch request t is waiting for: the adapter
\* goes on to its next fetch, or returns to the handler, which stores and
\* answers, or throws to the handler's catch block
UpstreamResponds(t, response) ==
  /\ tasks[t].pc = "await"
  /\ LET out == AdapterStep(tasks[t].adapter, tasks[t].fetches, response)
         got == [tasks[t] EXCEPT !.received = Append(@, response),
                   !.timer = ClearTimer(@)]
     IN  CASE out.kind = "next" ->
                /\ tasks' = [tasks EXCEPT ![t] = [got EXCEPT !.fetches = @ + 1]]
                /\ caches' = caches
           [] out.kind = "return" ->
                /\ tasks' = [tasks EXCEPT ![t] =
                     [got EXCEPT !.pc = "done", !.stores = @ + 1, !.result = out.value,
                        !.response = MissEnvelope(tasks[t].handler, tasks[t].provider,
                                                  out.value)]]
                /\ caches' = StoreResult(t, out.value)
           [] out.kind = "throw" ->
                /\ tasks' = [tasks EXCEPT ![t] =
                     [got EXCEPT !.pc = "done",
                        !.response = CatchEnvelope(tasks[t].handler, out.value)]]
                /\ caches' = CatchCaches(t)
  /\ UNCHANGED <<now, ticks, imageVars, call>>

\* The metadata requests and the image requests share no state; a behaviour
\* of this specification follows the ones or the others.
NoImageTraffic == imageCache = <<>> /\ \A i \in Images : images[i].pc = "idle"
NoMetaTraffic == \A t \in Tasks : tasks[t].pc = "idle"

AdapterNext ==
  \/ NoImageTraffic /\ \E t \in Tasks : handleApiHome(t)
  \/ NoImageTraffic /\ \E t \in Tasks, p \in ProviderIds, q \in Params, n \in Pages :
       handleSearch(t, p, q, n)
  \/ NoImageTraffic /\ \E t \in Tasks, p \in ProviderIds, q \in Params : handleInfo(t, p, q)
  \/ NoImageTraffic /\ \E t \in Tasks, p \in ProviderIds, q \in Params : handleRead(t, p, q)
  \/ NoImageTraffic /\ \E t \in Tasks, q \in Params, n \in Pages :
       handleAdvancedSearch(t, q, "", "", "", n)
  \/ NoImageTraffic /\ \E t \in Tasks, n \in Pages : handleRecentChapters(t, n)
  \/ NoImageTraffic /\ \E t \in Tasks, n \in Pages : handleNewManga(t, n)
  \/ NoImageTraffic /\ \E t \in Tasks : handleTrending(t)
  \/ NoImageTraffic /\ \E t \in Tasks, n \in Pages : handleManhwaPopular(t, n)
  \/ NoImageTraffic /\ \E t \in Tasks, n \in Pages : handleManhwaOngoing(t, n)
  \/ NoImageTraffic /\ \E t \in Tasks, q \in Params : handleManhwaDetail(t, q)
  \/ NoImageTraffic /\ \E t \in Tasks, q \in Params : handleManhwaChapter(t, q)
  \/ NoImageTraffic /\ \E t \in Tasks, q \in Params, n \in Pages : handleManhwaSearch(t, q, n)
  \/ NoImageTraffic /\ \E t \in Tasks : handleManhwaGenres(t)
  \/ NoImageTraffic /\ \E t \in Tasks, q \in Params, n \in Pages : handleManhwaGenre(t, q, n)
  \/ NoImageTraffic /\ \E t \in Tasks, q \in Params, n \in Pages : handleComickSearch(t, q, n)
  \/ NoImageTraffic /\ \E t \in Tasks, q \in Params : handleComickInfo(t, q)
  \/ NoImageTraffic /\ \E t \in Tasks, q \in Params : handleComickChapter(t, q)
  \/ \E t \in Tasks, r \in Responses : UpstreamResponds(t, r)
  \/ \E t \in Tasks : AdapterThrows(t)
  \/ NoMetaTraffic /\ \E i \in Images, u \in RequestUrls : proxyImage(i, u)
  \/ \E i \in Images, up \in UpstreamImages : ImageFetched(i, up)
  \/ \E i \in Images, st \in FailureStatuses : ImageNotOk(i, st)
  \/ \E i \in Images : ImageThrows(i)

AdapterSpec == Init /\ [][AdapterNext]_vars

----------------------------------------------------------------------------
(* An adapter invoked twice with the same arguments and the same upstream   *)
(* responses, at two clock readings.                                        *)

AllAdapters ==
  Scrapers \cup {"komikstationManhwaChapter", "comickSearch", "comickInfo",
                 "comickChapter", "mangadexSearch", "mangadexInfo", "mangadexRead"}

\* the clock readings at which an adapter is invoked (milliseconds)
InvokeTimes == {0, 1}

\* new Date().toISOString() at the readings above
ToISOString(ms) ==
  CASE ms = 0 -> "1970-01-01T00:00:00.000Z"
    [] ms = 1 -> "1970-01-01T00:00:00.001Z"
    [] ms = 2 -> "1970-01-01T00:00:00.002Z"
    [] OTHER -> "1970-01-01T00:00:00.003Z"

\* a set of stamping adapters that includes mangapillTrending
StampingAdaptersWithTrending == {"mangapillHomeData", "mangapillTrending"}

\* the adapters whose result has the field timestamp: new Date().toISOString()
StampingAdapters == {"mangapillHomeData"}

\* the adapter run from its k-th fetch on, given the responses to its fetches
RECURSIVE RunAdapter(_, _, _)
RunAdapter(adapter, responses, k) ==
  LET out == AdapterStep(adapter, k, responses[k])
  IN  IF out.kind = "next" /\ k < Len(responses)
      THEN RunAdapter(adapter, responses, k + 1)
      ELSE out

\* what one invocation at clock reading time gives back: what it returned or
\* threw, and the timestamp field of a returned result ("" = no such field)
InvokeAdapter(adapter, responses, time) ==
  LET out == RunAdapter(adapter, responses, 1)
  IN  [kind |-> out.kind, value |-> out.value,
       timestamp |-> IF out.kind = "return" /\ adapter \in StampingAdapters
                     THEN ToISOString(time) ELSE ""]

\* the invocations that are examined: the responses to all fetches of the
\* adapter, and the clock readings of the two invocations
InvokeInputs ==
  UNION {[adapter : {a}, responses : [1..FetchCount(a) -> Responses],
          times : InvokeTimes \X InvokeTimes] : a \in AllAdapters}

\* the next of the two invocations
Invoke ==
  /\ call.fn = "invoke"
  /\ ~call.returned
  /\ LET n == Len(call.output) + 1
         r == InvokeAdapter(call.input.adapter, call.input.responses, call.input.times[n])
     IN  call' = [call EXCEPT !.output = Append(@, r), !.returned = (n = 2)]
  /\ UNCHANGED <<metaVars, now, ticks, imageVars>>

InvokeInit ==
  /\ caches = [c \in CacheNames |-> <<>>]
  /\ tasks = [t \in Tasks |-> IdleTask]
  /\ now = 0
  /\ ticks = 0
  /\ imageCache = <<>>
  /\ images = [i \in Images |-> IdleImage]
  /\ call \in {[NoCall EXCEPT !.fn = "invoke", !.input = x] : x \in InvokeInputs}

InvokeNext == Invoke

InvokeSpec == InvokeInit /\ [][InvokeNext]_vars

----------------------------------------------------------------------------
(* Advanced searches whose parameters contain ':'                           *)

\* values of the q and genre parameters of /api/v1/advanced-search
KeyQueries == {"a", "a:b"}
KeyGenres == {"", "b:"}

KeyNext ==
  \/ \E t \in Tasks, q \in KeyQueries, g \in KeyGenres, n \in Pages :
       handleAdvancedSearch(t, q, g, "", "", n)
  \/ \E t \in Tasks, r \in AdapterResults : AdapterReturns(t, r)
  \/ \E t \in Tasks : AdapterThrows(t)
  \/ \E d \in Deltas : Tick(d)

KeySpec == Init /\ [][KeyNext]_vars

----------------------------------------------------------------------------
(* The MangaPill scrapers over time: requests to handleSearch and to        *)
(* handleRead for provider 'mangapill', the pages the upstream delivers,    *)
(* and the clock.                                                           *)

\* the pages mangapill.com delivers with status 200: one with the elements
\* the patterns match, one in which no pattern matches anything
ScrapedPages == {[ok |-> TRUE, body |-> "good"], [ok |-> TRUE, body |-> "html"]}

ScrapeNext ==
  \/ \E t \in Tasks, q \in Params, n \in Pages : handleSearch(t, "mangapill", q, n)
  \/ \E t \in Tasks, q \in Params : handleRead(t, "mangapill", q)
  \/ \E t \in Tasks, r \in ScrapedPages : UpstreamResponds(t, r)
  \/ \E t \in Tasks : AdapterThrows(t)
  \/ \E d \in Deltas : Tick(d)

ScrapeSpec == Init /\ [][ScrapeNext]_vars

----------------------------------------------------------------------------
(* The abort timer of komikstationManhwaPopular and                         *)
(* komikstationManhwaOngoing: worker.js lines 811-816 and 858-863.  The     *)
(* timer is armed in the step that starts the fetch; fetch resolves when    *)
(* the upstream has answered, and the body is read after clearTimeout.      *)

\* what the engine reports for a fetch that was aborted
AbortMessage == "The operation was aborted"

\* by how much the clock advances while a fetch is pending
TimerDeltas == {1, FETCH_TIMEOUT - 1}

\* fetch resolved: clearTimeout(timeoutId), then await response.text()
FetchResolves(t) ==
  /\ tasks[t].pc = "await"
  /\ tasks[t].timer = "armed"
  /\ tasks' = [tasks EXCEPT ![t] = [@ EXCEPT !.pc = "text", !.timer = ClearTimer(@)]]
  /\ UNCHANGED <<caches, now, ticks, imageVars, call>>

\* the body arrived: the adapter returns its result, the handler stores it
\* and answers
BodyArrives(t, result) ==
  /\ tasks[t].pc = "text"
  /\ caches' = StoreResult(t, result)
  /\ tasks' = [tasks EXCEPT ![t] =
       [@ EXCEPT !.pc = "done", !.stores = @ + 1, !.result = result,
          !.response = MissEnvelope(tasks[t].handler, tasks[t].provider, result)]]
  /\ UNCHANGED <<now, ticks, imageVars, call>>

\* reading the body failed: the catch blocks of the adapter and the handler
BodyFails(t) ==
  /\ tasks[t].pc = "text"
  /\ caches' = CatchCaches(t)
  /\ tasks' = [tasks EXCEPT ![t] =
       [@ EXCEPT !.pc = "done",
          !.response = CatchEnvelope(tasks[t].handler, AdapterMessage(tasks[t].adapter))]]
  /\ UNCHANGED <<now, ticks, imageVars, call>>

\* a timer callback that starts the fetch again
TimerFiresRetrying(t) ==
  /\ tasks[t].timer = "armed"
  /\ now - tasks[t].fetchStart >= FETCH_TIMEOUT
  /\ tasks' = [tasks EXCEPT ![t] =
       IF tasks[t].pc = "await" /\ tasks[t].fetches < 2
       THEN [@ EXCEPT !.fetches = @ + 1]
       ELSE [@ EXCEPT !.timer = "fired",
               !.pc = "done",
               !.response = IF tasks[t].pc = "await"
                            THEN CatchEnvelope(tasks[t].handler,
                                   ErrorPrefix(tasks[t].adapter) \o AbortMessage)
                            ELSE @]]
  /\ UNCHANGED <<caches, now, ticks, imageVars, call>>

\* the timer callback: controller.abort().  A pending fetch rejects, and the
\* catch blocks of the adapter and of the handler run; after a fetch that
\* has already rejected (the timer was not cleared) abort() changes nothing
TimerFires(t) ==
  /\ tasks[t].timer = "armed"
  /\ now - tasks[t].fetchStart >= FETCH_TIMEOUT
  /\ tasks' = [tasks EXCEPT ![t] =
       IF tasks[t].pc = "await"
       THEN [@ EXCEPT !.timer = "fired", !.pc = "done",
               !.response = CatchEnvelope(tasks[t].handler,
                              ErrorPrefix(tasks[t].adapter) \o AbortMessage)]
       ELSE [@ EXCEPT !.timer = "fired"]]
  /\ caches' = IF tasks[t].pc = "await" THEN CatchCaches(t) ELSE caches
  /\ UNCHANGED <<now, ticks, imageVars, call>>

TimeoutNext ==
  \/ \E t \in Tasks, n \in Pages : handleManhwaPopular(t, n)
  \/ \E t \in Tasks, n \in Pages : handleManhwaOngoing(t, n)
  \/ \E t \in Tasks : FetchResolves(t)
  \/ \E t \in Tasks, r \in AdapterResults : BodyArrives(t, r)
  \/ \E t \in Tasks : BodyFails(t)
  \/ \E t \in Tasks : AdapterThrows(t)
  \/ \E t \in Tasks : TimerFires(t)
  \/ \E d \in TimerDeltas : Tick(d)

\* the event loop runs the callback of a timer that is due
TimeoutSpec ==
  Init /\ [][TimeoutNext]_vars /\ \A t \in Tasks : WF_vars(TimerFires(t))

----------------------------------------------------------------------------
(* komikstationManhwaChapter on the chapter page: worker.js lines 968-1022  *)

\* the chapter pages the upstream delivers.  script says what the page has
\* for ts_reader.run(...):
\*   "absent":     no such script,
\*   "unparsable": a script whose argument JSON.parse rejects,
\*   "null":       the argument null (sources is read, prevUrl throws),
\*   "parsed":     an object; scriptImages is its sources[0].images, <<>>
\*                 when that is missing or empty.
\* reader says whether the page has the readerarea div; readerImages are the
\* src attributes of the <img> elements in it.
ChapterPages ==
  [script : {"absent", "unparsable", "null"}, scriptImages : {<<>>},
   reader : BOOLEAN, readerImages : {<<>>}]
  \cup [script : {"absent", "unparsable", "null"}, scriptImages : {<<>>},
        reader : {TRUE}, readerImages : {<<"https://cdn/r1.jpg">>}]
  \cup [script : {"parsed"}, scriptImages : {<<>>, <<"https://cdn/s1.jpg">>},
        reader : BOOLEAN, readerImages : {<<>>}]
  \cup [script : {"parsed"}, scriptImages : {<<>>, <<"https://cdn/s1.jpg">>},
        reader : {TRUE}, readerImages : {<<"https://cdn/r1.jpg">>}]

\* images after the ts_reader block: let images = []; if (scriptMatch) try
\* { images = jsonObject?.sources?.[0]?.images || [] ... } catch (_) {}
ScriptImages(html) == IF html.script = "parsed" THEN html.scriptImages ELSE <<>>

\* a fallback that is tried only when the page has no ts_reader script
NeedsFallbackWithoutScript(html, found) == html.script = "absent"

\* if (images.length === 0), the test before the readerarea block
NeedsFallback(html, found) == Len(found) = 0

\* images after the readerarea block: for (const m of imgMatches)
\* images.push(m[1]), when readerMatch
ReaderImages(html, found) == IF html.reader THEN found \o html.readerImages ELSE found

\* the adapter on one page: what it found, whether it ran the fallback, and
\* its outcome
komikstationChapterOutcome(html) ==
  LET first == ScriptImages(html)
      fallback == NeedsFallback(html, first)
      found == IF fallback THEN ReaderImages(html, first) ELSE first
  IN  [fallback |-> fallback, images |-> found,
       out |-> IF Len(found) = 0
               THEN Throws("komikstationManhwaChapter", "Chapter images not found")
               ELSE Returns("items")]

\* the upstream delivers the chapter page request t is waiting for: the
\* adapter runs to its end, then the handler stores and answers, or its
\* catch block answers
ChapterResponds(t, html) ==
  /\ tasks[t].pc = "await"
  /\ tasks[t].adapter = "komikstationManhwaChapter"
  /\ LET o == komikstationChapterOutcome(html)
         got == [tasks[t] EXCEPT !.received = Append(@, html),
                   !.scraped = [fallback |-> o.fallback, images |-> o.images]]
     IN  IF o.out.kind = "return"
         THEN /\ tasks' = [tasks EXCEPT ![t] =
                   [got EXCEPT !.pc = "done", !.stores = @ + 1, !.result = o.out.value,
                      !.response = MissEnvelope(tasks[t].handler, tasks[t].provider,
                                                o.out.value)]]
              /\ caches' = StoreResult(t, o.out.value)
         ELSE /\ tasks' = [tasks EXCEPT ![t] =
                   [got EXCEPT !.pc = "done",
                      !.response = CatchEnvelope(tasks[t].handler, o.out.value)]]
              /\ caches' = CatchCaches(t)
  /\ UNCHANGED <<now, ticks, imageVars, call>>

ChapterNext ==
  \/ \E t \in Tasks, q \in Params : handleManhwaChapter(t, q)
  \/ \E t \in Tasks, html \in ChapterPages : ChapterResponds(t, html)
  \/ \E t \in Tasks : AdapterThrows(t)

ChapterSpec == Init /\ [][ChapterNext]_vars

----------------------------------------------------------------------------
(* What the adapters extract from a document: the status of a work and the  *)
(* pages of a chapter.  Each function is examined on its own: the initial    *)
(* state holds its argument, one step applies it.                            *)

\* String.prototype.toUpperCase() on the status words
ToUpperCase(word) ==
  CASE word \in {"ongoing", "Ongoing"} -> "ONGOING"
    [] word \in {"completed", "Completed"} -> "COMPLETED"
    [] word \in {"hiatus", "Hiatus"} -> "HIATUS"
    [] word = "publishing" -> "PUBLISHING"
    [] word = "finished" -> "FINISHED"
    [] OTHER -> word

\* mangapillInfo, "Extract status": html is described by statusLink, the text
\* of the link that follows the label Status ("" = no such label), and word,
\* the first of Ongoing|Completed|Hiatus (any case) anywhere in the page
\* ("" = none)
mangapillInfoStatus(html) ==
  IF html.statusLink # "" THEN ToUpperCase(html.statusLink)
  ELSE IF html.word # "" THEN ToUpperCase(html.word)
  ELSE "UNKNOWN"

\* comickInfo: status: data.status === 0 ? 'ongoing' : 'completed'
\* data.status is [present |-> FALSE] when the document has no such field
comickInfoStatus(status) ==
  IF status.present /\ status.value = 0 THEN "ongoing" ELSE "completed"

\* mangadexInfo: manga.attributes.status?.toUpperCase() || 'UNKNOWN'
\* ("" = undefined, null or the empty string)
mangadexInfoStatus(status) ==
  IF status # "" THEN ToUpperCase(status) ELSE "UNKNOWN"

\* the documents the three functions are applied to
StatusInputs(fn) ==
  CASE fn = "mangapillInfo" ->
         [statusLink : {"", "publishing", "finished"}, word : {"", "Completed", "ongoing"}]
    [] fn = "comickInfo" ->
         {[present |-> FALSE, value |-> 0]} \cup [present : {TRUE}, value : 0..2]
    [] fn = "mangadexInfo" -> {"", "ongoing", "completed", "hiatus"}

InfoAdapters == {"mangapillInfo", "comickInfo", "mangadexInfo"}

StatusOf(fn, input) ==
  CASE fn = "mangapillInfo" -> mangapillInfoStatus(input)
    [] fn = "comickInfo" -> comickInfoStatus(input)
    [] fn = "mangadexInfo" -> mangadexInfoStatus(input)

\* the part of getDetails that sets the field status of the record
ExtractStatus ==
  /\ call.fn \in InfoAdapters
  /\ ~call.returned
  /\ call' = [call EXCEPT !.output = StatusOf(call.fn, call.input), !.returned = TRUE]
  /\ UNCHANGED <<metaVars, now, ticks, imageVars>>

\* mangapillRead: while ((match = pagePattern.exec(html)) !== null)
\*   pages.push({ page: pages.length + 1, img: match[1] })
RECURSIVE PushPages(_, _)
PushPages(pages, matches) ==
  IF matches = <<>> THEN pages
  ELSE PushPages(Append(pages, [page |-> Len(pages) + 1, img |-> Head(matches)]),
                 Tail(matches))

\* page numbers that start at 0
mangapillReadZeroBased(matches) ==
  [i \in DOMAIN matches |-> [page |-> i - 1, img |-> matches[i]]]

mangapillRead(matches) == PushPages(<<>>, matches)

\* mangadexRead: data.chapter.data.map((filename, index) =>
\*   ({ page: index + 1, img: `${baseUrl}/data/${hash}/${filename}` }))
mangadexRead(data) ==
  [i \in DOMAIN data.chapter.data |->
     [page |-> (i - 1) + 1,
      img |-> data.baseUrl \o "/data/" \o data.chapter.hash \o "/" \o data.chapter.data[i]]]

\* comickChapter: the URL of one element of chapter.images: the element
\* itself when it is a string, else img.url, else the host and img.b2key
\* without its leading slashes, else ''
comickImageUrl(img) ==
  CASE img.kind = "string" -> img.value
    [] img.kind = "url" -> img.value
    [] img.kind = "b2key" ->
         "https://meo.comick.pictures/" \o (IF img.value = "/k1.jpg" THEN "k1.jpg" ELSE img.value)
    [] OTHER -> ""

\* comickChapter: chapter.images.map((img, i) => ({ page: i + 1, img: imgUrl }))
comickChapter(extracted) ==
  [i \in DOMAIN extracted |-> [page |-> (i - 1) + 1, img |-> comickImageUrl(extracted[i])]]

\* komikstationManhwaChapter: images.map((img, i) => ({ page: i + 1, img }))
komikstationManhwaChapter(extracted) ==
  [i \in DOMAIN extracted |-> [page |-> (i - 1) + 1, img |-> extracted[i]]]

\* komikstationManhwaChapter: if (images.length === 0) throw new Error(...)
ChapterThrows(fn, input) == fn = "komikstationManhwaChapter" /\ Len(input) = 0

PageAdapters == {"mangapillRead", "mangadexRead", "comickChapter", "komikstationManhwaChapter"}

\* the sequences of at most n elements of S
SeqsUpTo(S, n) == UNION {[1..k -> S] : k \in 0..n}

\* what is extracted from the chapter document, in document order
PageInputs(fn) ==
  CASE fn \in {"mangapillRead", "komikstationManhwaChapter"} ->
         SeqsUpTo({"https://cdn/1.jpg", "https://cdn/2.jpg"}, MaxPages)
    [] fn = "mangadexRead" ->
         {[baseUrl |-> "https://md", chapter |-> [hash |-> "h", data |-> d]] :
            d \in SeqsUpTo({"1.png", "2.png"}, MaxPages)}
    [] fn = "comickChapter" ->
         SeqsUpTo({[kind |-> "string", value |-> "https://cdn/1.jpg"],
                   [kind |-> "b2key", value |-> "/k1.jpg"],
                   [kind |-> "none", value |-> ""]}, MaxPages)

PagesOf(fn, input) ==
  CASE fn = "mangapillRead" -> mangapillRead(input)
    [] fn = "mangadexRead" -> mangadexRead(input)
    [] fn = "comickChapter" -> comickChapter(input)
    [] fn = "komikstationManhwaChapter" -> komikstationManhwaChapter(input)

\* the part of getPages that builds the pages from what was extracted
ExtractPages ==
  /\ call.fn \in PageAdapters
  /\ ~call.returned
  /\ call' = IF ChapterThrows(call.fn, call.input)
             THEN [call EXCEPT !.threw = TRUE, !.returned = TRUE]
             ELSE [call EXCEPT !.output = PagesOf(call.fn, call.input), !.returned = TRUE]
  /\ UNCHANGED <<metaVars, now, ticks, imageVars>>

----------------------------------------------------------------------------
(* decodeHtmlEntities: worker.js lines 209-226.  A text is the sequence of   *)
(* its characters.                                                           *)

\* the table `entities`: the entity and the character it stands for
\* (EM DASH is written out, the others are the characters themselves)
entities ==
  {<< <<"&", "a", "m", "p", ";">>, "&" >>,
   << <<"&", "l", "t", ";">>, "<" >>,
   << <<"&", "g", "t", ";">>, ">" >>,
   << <<"&", "q", "u", "o", "t", ";">>, "\"" >>,
   << <<"&", "#", "3", "9", ";">>, "'" >>,
   << <<"&", "n", "b", "s", "p", ";">>, " " >>,
   << <<"&", "#", "x", "2", "7", ";">>, "'" >>,
   << <<"&", "#", "x", "2", "F", ";">>, "/" >>,
   << <<"&", "#", "8", "2", "1", "7", ";">>, "'" >>,
   << <<"&", "#", "8", "2", "2", "0", ";">>, "\"" >>,
   << <<"&", "#", "8", "2", "2", "1", ";">>, "\"" >>,
   << <<"&", "#", "8", "2", "1", "1", ";">>, "-" >>,
   << <<"&", "#", "8", "2", "1", "2", ";">>, "EM DASH" >>}

\* (entity) => entities[entity] || entity
ReplaceEntity(entity) ==
  IF \E e \in entities : e[1] = entity
  THEN <<(CHOOSE e \in entities : e[1] = entity)[2]>>
  ELSE entity

\* where the match of /&[^;]+;/ that starts at position i ends: at the first
\* ';' after i, when text[i] is '&' and at least one character lies between
\* them; 0 when the pattern does not match at i
MatchEnd(text, i) ==
  IF text[i] = "&" /\ \E j \in (i + 1)..Len(text) : text[j] = ";"
  THEN LET j == CHOOSE j \in (i + 1)..Len(text) :
                  text[j] = ";" /\ \A k \in (i + 1)..(j - 1) : text[k] # ";"
       IN  IF j >= i + 2 THEN j ELSE 0
  ELSE 0

\* text.replace(/&[^;]+;/g, ...) from position i on: the matches are taken
\* from left to right and do not overlap
RECURSIVE ReplaceFrom(_, _)
ReplaceFrom(text, i) ==
  IF i > Len(text) THEN <<>>
  ELSE IF MatchEnd(text, i) # 0
  THEN ReplaceEntity(SubSeq(text, i, MatchEnd(text, i)))
         \o ReplaceFrom(text, MatchEnd(text, i) + 1)
  ELSE <<text[i]>> \o ReplaceFrom(text, i + 1)

decodeHtmlEntities(text) == ReplaceFrom(text, 1)

\* the characters of the texts that are decoded
TextChars == {"&", ";", "l", "t", "x"}
TextInputs == SeqsUpTo(TextChars, MaxText)

\* decodeHtmlEntities(text)
DecodeText ==
  /\ call.fn = "decodeHtmlEntities"
  /\ ~call.returned
  /\ call' = [call EXCEPT !.output = decodeHtmlEntities(call.input), !.returned = TRUE]
  /\ UNCHANGED <<metaVars, now, ticks, imageVars>>

\* the values of the page query parameter: searchParams.get('page') is null
\* when the parameter is absent (present = FALSE)
PageParams ==
  {[present |-> FALSE, value |-> ""]}
  \cup [present : {TRUE}, value : {"", "0", "1", "2", "abc", "2abc", "1.9", "-3"}]

\* parseInt(raw): the integer that starts the text, NaN (nan = TRUE) when
\* none does
parseInt(raw) ==
  CASE ~raw.present -> [nan |-> TRUE, n |-> 0]
    [] raw.value = "0" -> [nan |-> FALSE, n |-> 0]
    [] raw.value \in {"1", "1.9"} -> [nan |-> FALSE, n |-> 1]
    [] raw.value \in {"2", "2abc"} -> [nan |-> FALSE, n |-> 2]
    [] raw.value = "-3" -> [nan |-> FALSE, n |-> -3]
    [] OTHER -> [nan |-> TRUE, n |-> 0]

\* const page = parseInt(urlObj.searchParams.get('page')) || 1: NaN and 0
\* are falsy
ParsePage(raw) ==
  IF parseInt(raw).nan \/ parseInt(raw).n = 0 THEN 1 ELSE parseInt(raw).n

\* the page the upstream URL asks for: page > 1 ? `...?page=${page}` : the
\* URL without a page parameter, which is the upstream's first page
UpstreamPage(page) == IF page > 1 THEN page ELSE 1

\* a paged handler from its page parameter to its answer: the page in the
\* cache key, the page the upstream is asked for, the currentPage of the result
PageUse ==
  /\ call.fn = "page"
  /\ ~call.returned
  /\ LET page == ParsePage(call.input)
     IN  call' = [call EXCEPT !.output = [key |-> page, upstream |-> UpstreamPage(page),
                                          currentPage |-> page],
                              !.returned = TRUE]
  /\ UNCHANGED <<metaVars, now, ticks, imageVars>>

\* the applications that are examined
ExtractCalls ==
  UNION ({{[NoCall EXCEPT !.fn = f, !.input = x] : x \in StatusInputs(f)} : f \in InfoAdapters}
         \cup {{[NoCall EXCEPT !.fn = f, !.input = x] : x \in PageInputs(f)} : f \in PageAdapters}
         \cup {{[NoCall EXCEPT !.fn = "decodeHtmlEntities", !.input = x] : x \in TextInputs}}
         \cup {{[NoCall EXCEPT !.fn = "page", !.input = x] : x \in PageParams}})

ExtractInit ==
  /\ caches = [c \in CacheNames |-> <<>>]
  /\ tasks = [t \in Tasks |-> IdleTask]
  /\ now = 0
  /\ ticks = 0
  /\ imageCache = <<>>
  /\ images = [i \in Images |-> IdleImage]
  /\ call \in ExtractCalls

ExtractNext == ExtractStatus \/ ExtractPages \/ DecodeText \/ PageUse

ExtractSpec == ExtractInit /\ [][ExtractNext]_vars

----------------------------------------------------------------------------
(* The validation gate of fetch: worker.js lines 158-199 and 2565-2593.     *)
(* A header or a query parameter that is absent is "".                      *)

\* new URL(request.url).origin
ApiOrigin == "https://api.example"

\* the values of the Origin header
Origins ==
  {"", "https://api.example", "https://api.example/", "https://app.example",
   "https://app.example/", "https://evil.example"}

\* norm = (o) => (o || '').trim().replace(/\/+$/, ''), on the origins above
\* and on the parts of ALLOWED_ORIGIN
norm(o) ==
  CASE o = "https://api.example/" -> "https://api.example"
    [] o \in {"https://app.example/", " https://app.example"} -> "https://app.example"
    [] o = " " -> ""
    [] OTHER -> o

\* the values of env.ALLOWED_ORIGIN ("" = not set)
AllowedOriginSettings ==
  {"", "*", "https://app.example/", "https://web.example, https://app.example, "}

\* allowedOrigin.split(',')
Split(allowedOrigin) ==
  CASE allowedOrigin = "https://web.example, https://app.example, " ->
         <<"https://web.example", " https://app.example", " ">>
    [] OTHER -> <<allowedOrigin>>

\* allowedOrigin.split(',').map(norm).filter(Boolean)
allowedOrigins(allowedOrigin) ==
  {norm(Split(allowedOrigin)[i]) : i \in DOMAIN Split(allowedOrigin)} \ {""}

\* validateRequest(request, env, allowQueryToken)
validateRequest(request, env, allowQueryToken) ==
  IF request.origin # "" /\ norm(request.origin) = norm(ApiOrigin)
  THEN [valid |-> TRUE, reason |-> ""]
  ELSE IF /\ env.ALLOWED_ORIGIN \notin {"", "*"}
          /\ request.origin # ""
          /\ norm(request.origin) \notin allowedOrigins(env.ALLOWED_ORIGIN)
  THEN [valid |-> FALSE, reason |-> "origin"]
  ELSE IF env.SECRET_TOKEN # ""
  THEN IF request.authHeader = env.SECRET_TOKEN
       THEN [valid |-> TRUE, reason |-> ""]
       ELSE IF allowQueryToken /\ request.queryToken = env.SECRET_TOKEN
       THEN [valid |-> TRUE, reason |-> ""]
       ELSE [valid |-> FALSE, reason |-> "token"]
  ELSE [valid |-> TRUE, reason |-> ""]

\* corsHeaders: allowedOrigin.split(',').map(norm).filter(Boolean), in order
allowedOriginsList(allowedOrigin) ==
  SelectSeq([i \in DOMAIN Split(allowedOrigin) |-> norm(Split(allowedOrigin)[i])],
            LAMBDA o : o # "")

\* corsHeaders(env, requestOrigin)['Access-Control-Allow-Origin']: worker.js
\* lines 101-118
corsHeaders(env, requestOrigin) ==
  LET allowedOrigin == IF env.ALLOWED_ORIGIN = "" THEN "*" ELSE env.ALLOWED_ORIGIN
      list == allowedOriginsList(allowedOrigin)
  IN  IF allowedOrigin # "*" /\ requestOrigin # ""
      THEN IF \E i \in DOMAIN list : list[i] = norm(requestOrigin)
           THEN norm(requestOrigin)
           ELSE IF Len(list) > 0 THEN list[1] ELSE allowedOrigin
      ELSE allowedOrigin

\* isPublicEndpoint
PublicEndpoints == {"/", "/api/v1/image", "/api/proxy/prefetch"}

\* the paths of the requests
Pathnames == PublicEndpoints \cup {"/api/v1/search/naruto", "/api/v1/home"}

\* the handler the router gives a path to
HandlerOf(pathname) ==
  CASE pathname = "/" -> "handleHome"
    [] pathname = "/api/v1/image" -> "proxyImage"
    [] pathname = "/api/proxy/prefetch" -> "prefetch"
    [] pathname = "/api/v1/search/naruto" -> "handleSearch"
    [] pathname = "/api/v1/home" -> "handleApiHome"

\* errorMessages[validation.reason] || 'Access denied.'
errorMessages(reason) ==
  CASE reason = "origin" -> "Access denied. Request origin not allowed."
    [] reason = "token" -> "Unauthorized access. Valid authentication required."
    [] OTHER -> "Access denied."

\* what fetch does with a request before a handler runs: handler is the
\* handler the request is given to, "" when the gate answers by itself;
\* status is 0 when the handler is the one that sets it; allowOrigin is the
\* Access-Control-Allow-Origin header of the response (the handlers build
\* their responses with the same env and request)
Gate(request, env) ==
  IF request.method = "OPTIONS"
  THEN [status |-> 200, handler |-> "", message |-> "",
        allowOrigin |-> corsHeaders(env, request.origin)]
  ELSE IF /\ request.pathname \notin PublicEndpoints
          /\ ~validateRequest(request, env, TRUE).valid
  THEN [status |-> 401, handler |-> "",
        message |-> errorMessages(validateRequest(request, env, TRUE).reason),
        allowOrigin |-> corsHeaders(env, request.origin)]
  ELSE [status |-> 0, handler |-> HandlerOf(request.pathname), message |-> "",
        allowOrigin |-> corsHeaders(env, request.origin)]

Requests ==
  [method : {"GET", "OPTIONS"}, pathname : Pathnames, origin : Origins,
   authHeader : {"", "secret", "guess"}, queryToken : {"", "secret", "guess"}]

Envs == [SECRET_TOKEN : {"", "secret"}, ALLOWED_ORIGIN : AllowedOriginSettings]

\* fetch(request, env, ctx), up to the call of the handler
fetch ==
  /\ call.fn = "fetch"
  /\ ~call.returned
  /\ call' = [call EXCEPT !.output = Gate(call.input.request, call.input.env),
                          !.returned = TRUE]
  /\ UNCHANGED <<metaVars, now, ticks, imageVars>>

GateInit ==
  /\ caches = [c \in CacheNames |-> <<>>]
  /\ tasks = [t \in Tasks |-> IdleTask]
  /\ now = 0
  /\ ticks = 0
  /\ imageCache = <<>>
  /\ images = [i \in Images |-> IdleImage]
  /\ call \in {[NoCall EXCEPT !.fn = "fetch", !.input = [request |-> r, env |-> e]] :
                 r \in Requests, e \in Envs}

GateNext == fetch

GateSpec == GateInit /\ [][GateNext]_vars

----------------------------------------------------------------------------
(* Properties of the metadata handlers *)

\* the body says the response came from the cache
ReportsCached(r) == "cached" \in r.keys /\ r.cached

\* request t was answered from the try block
Succeeded(t) == tasks[t].pc = "done" /\ tasks[t].response.status = "success"
                  /\ "error" \notin tasks[t].response.keys

\* request t ended in the catch block
Failed(t) == tasks[t].pc = "done" /\ tasks[t].stores = 0
               /\ (tasks[t].fetches >= 1 \/ tasks[t].adapter = "throw")

\* the step in which request t enters its handler
Enters(t) == tasks[t].pc = "idle" /\ tasks'[t].pc # "idle"

\* the step in which the catch block of request t runs
Catches(t) == /\ tasks[t].pc # "done" /\ tasks'[t].pc = "done"
              /\ tasks'[t].stores = 0
              /\ (tasks'[t].fetches >= 1 \/ tasks'[t].adapter = "throw")

\* the step in which request t stores the adapter's result
Stores(t) == tasks[t].pc = "await" /\ tasks'[t].stores = 1

\* C1: a request that finds an entry younger than its handler's TTL under its
\* key is answered in the same step with that entry's data and cached = true,
\* without an upstream fetch and without a cache write.
C1_HitServedFromCache ==
  [][\A t \in Tasks :
       Enters(t) =>
         LET h == tasks'[t].handler
             c == Route(h).cache
             k == tasks'[t].key
         IN  (k \in DOMAIN caches[c] /\ now - caches[c][k].timestamp < Route(h).ttl) =>
               /\ tasks'[t].pc = "done"
               /\ tasks'[t].response.status = "success"
               /\ ReportsCached(tasks'[t].response)
               /\ tasks'[t].response.payload = caches[c][k].data
               /\ tasks'[t].fetches = 0
               /\ tasks'[t].stores = 0
               /\ caches' = caches]_vars

\* a hit on an entry one millisecond short of its expiry
C1_Witness ==
  \E t \in Tasks :
    /\ tasks[t].pc = "done"
    /\ ReportsCached(tasks[t].response)
    /\ tasks[t].fetches = 0
    /\ tasks[t].now - tasks[t].cached.timestamp = Route(tasks[t].handler).ttl - 1

C4_AsStated ==
  [][\A t \in Tasks :
       Stores(t) =>
         LET e == caches'[tasks[t].cache][tasks[t].key]
         IN  /\ e.timestamp = now'
             /\ IsFresh(e, now', Route(tasks[t].handler).ttl)]_vars

\* C4: the entry a miss stores is stamped with the time at which the request
\* started; right after the store it is within its TTL exactly when the fetch
\* took less than the TTL.
C4_StampedAtStart ==
  [][\A t \in Tasks :
       Stores(t) =>
         LET e == caches'[tasks[t].cache][tasks[t].key]
             h == tasks[t].handler
         IN  /\ e.timestamp = tasks[t].now
             /\ e.data = tasks'[t].result
             /\ IsFresh(e, now', Route(h).ttl) <=> (now' - tasks[t].now < Route(h).ttl)]_vars

\* an entry that was stored when the fetch had taken the TTL or longer
C4_Witness ==
  \E t \in Tasks :
    /\ tasks[t].stores = 1
    /\ tasks[t].key \in DOMAIN caches[tasks[t].cache]
    /\ caches[tasks[t].cache][tasks[t].key].writer = t
    /\ \E u \in Tasks :
         /\ u > t
         /\ tasks[u].pc # "idle"
         /\ tasks[u].key = tasks[t].key
         /\ tasks[u].cached = NoEntry
         /\ tasks[u].now - tasks[t].now >= Route(tasks[t].handler).ttl

\* C5: when the adapter call of a request throws, the caches are after the
\* catch block what they were before it, the thrown message is in the
\* response, and an entry the request found stale is still stale.
C5_FailureLeavesCache ==
  [][\A t \in Tasks :
       Catches(t) =>
         LET m == IF tasks'[t].adapter = "throw"
                  THEN UnsupportedMessage(tasks'[t].provider)
                  ELSE AdapterMessage(tasks'[t].adapter)
             r == tasks'[t].response
             c == tasks'[t].cache
             k == tasks'[t].key
         IN  /\ caches' = caches
             /\ \/ "message" \in r.keys /\ r.message = m
                \/ "error" \in r.keys /\ r.error = m
             /\ ~ReportsCached(r)
             /\ (k \in DOMAIN caches'[c] /\ caches'[c][k] = tasks'[t].cached)
                  => ~IsFresh(caches'[c][k], now', Route(tasks'[t].handler).ttl)]_vars

\* a failed request whose cache holds an entry, and whose key has none
C5_Witness ==
  \E t \in Tasks :
    /\ Failed(t)
    /\ tasks[t].fetches = 1
    /\ caches[tasks[t].cache] # <<>>
    /\ tasks[t].key \notin DOMAIN caches[tasks[t].cache]

\* C6 as stated: every request whose adapter call failed is answered with
\* status "error" and a message.
C6_AsStated ==
  \A t \in Tasks :
    Failed(t) => /\ tasks[t].response.status = "error"
                 /\ "message" \in tasks[t].response.keys
                 /\ tasks[t].response.message # ""

\* C6: a request whose adapter call failed is answered with status "error" and
\* the message, except by handleApiHome, which answers with status "success"
\* and the message in the field error.
C6_ErrorEnvelope ==
  \A t \in Tasks :
    Failed(t) =>
      LET r == tasks[t].response
      IN  IF tasks[t].handler = "handleApiHome"
          THEN /\ r.status = "success"
               /\ "error" \in r.keys /\ r.error # ""
               /\ "message" \notin r.keys
          ELSE /\ r.status = "error"
               /\ "message" \in r.keys /\ r.message # ""
               /\ r.keys = {"status", "message"}

\* a failed request of a handler other than handleApiHome
C6_Witness ==
  \E t \in Tasks :
    /\ Failed(t)
    /\ tasks[t].fetches = 1
    /\ tasks[t].handler # "handleApiHome"
    /\ tasks[t].response.status = "error"

\* request t asked search, info or read for a provider without an adapter
Unsupported(t) ==
  /\ tasks[t].pc # "idle"
  /\ tasks[t].handler \in {"handleSearch", "handleInfo", "handleRead"}
  /\ tasks[t].provider \notin {"mangadex", "mangapill"}

----------------------------------------------------------------------------
(* Properties of the image proxy *)

\* the URLs under which the image cache holds an entry
CachedUrls(cache) == {cache[k].url : k \in DOMAIN cache}

\* the step in which request i stores the image it fetched
StoresImage(i) == images[i].pc = "fetch" /\ images'[i].pc = "done"
                    /\ images'[i].xcache = "MISS"

\* C9: the image cache never holds more than MAX_IMAGE_CACHE_SIZE entries,
\* however the proxyImage calls interleave.
C9_ImageCacheBounded == Len(imageCache) <= MAX_IMAGE_CACHE_SIZE

\* of two overlapping requests for a new URL, one has stored into the full
\* cache while the other is still fetching
C9_Witness ==
  /\ Len(imageCache) = MAX_IMAGE_CACHE_SIZE
  /\ 1 \notin CachedUrls(imageCache)
  /\ \E i, j \in Images :
       /\ i # j
       /\ images[i].pc = "done" /\ images[i].xcache = "MISS"
       /\ images[j].pc = "fetch"
       /\ images[i].url = images[j].url
       /\ images[i].url \in CachedUrls(imageCache)

\* C10: storing a URL that the image cache does not hold into a full cache
\* removes exactly the entry that was inserted first and adds the new one; a
\* request for the removed URL then misses, and a request for any other URL
\* the cache held hits as long as that entry is unexpired.
C10_EvictsOldest ==
  [][\A i \in Images :
       (/\ StoresImage(i)
        /\ Len(imageCache) >= MAX_IMAGE_CACHE_SIZE
        /\ images[i].url \notin CachedUrls(imageCache))
       => LET oldest == CHOOSE e \in {imageCache[k] : k \in DOMAIN imageCache} :
                          \A k \in DOMAIN imageCache : e.born <= imageCache[k].born
          IN  /\ Len(imageCache') = MAX_IMAGE_CACHE_SIZE
              /\ CachedUrls(imageCache') =
                   (CachedUrls(imageCache) \ {oldest.url}) \cup {images[i].url}
              /\ \A k \in DOMAIN imageCache :
                   imageCache[k] # oldest =>
                     \E m \in DOMAIN imageCache' : imageCache'[m] = imageCache[k]
              /\ ImageGet(imageCache', oldest.url) = NoImage
              /\ \A k \in DOMAIN imageCache :
                   (imageCache[k] # oldest /\ now' - imageCache[k].timestamp < IMAGE_CACHE_DURATION)
                     => ImageFresh(ImageGet(imageCache', imageCache[k].url), now')]_vars

\* the first URL was served from the full cache, and the store of a new URL
\* then removed it all the same
C10_Witness ==
  /\ Len(imageCache) = MAX_IMAGE_CACHE_SIZE
  /\ \E i, j \in Images :
       /\ images[i].pc = "done" /\ images[i].xcache = "HIT" /\ images[i].url = 1
       /\ images[j].pc = "done" /\ images[j].xcache = "MISS"
       /\ images[j].url = MAX_IMAGE_CACHE_SIZE + 1
  /\ 1 \notin CachedUrls(imageCache)
  /\ MAX_IMAGE_CACHE_SIZE \in CachedUrls(imageCache)
  /\ MAX_IMAGE_CACHE_SIZE + 1 \in CachedUrls(imageCache)

\* the step in which request i enters proxyImage with a URL
EntersImage(i) == images[i].pc = "idle" /\ images'[i].pc # "idle" /\ images'[i].url # NoUrl

\* the step in which the upstream fetch of request i ends
FetchEnds(i) == images[i].pc = "fetch" /\ images'[i].pc = "done"

\* C11: proxyImage answers X-Cache: HIT exactly when the cache holds an entry
\* for the URL that is less than IMAGE_CACHE_DURATION old; the HIT carries the
\* stored bytes and content type, and neither fetches nor changes the cache.
\* Otherwise it fetches, and a fetch that succeeds answers X-Cache: MISS with
\* the fetched bytes, which the cache then holds under the URL.
C11_HitExactlyWhenFresh ==
  [][\A i \in Images :
       /\ EntersImage(i) =>
            LET u == images'[i].url
                e == ImageGet(imageCache, u)
                young == u \in CachedUrls(imageCache)
                           /\ now - e.timestamp < IMAGE_CACHE_DURATION
            IN  /\ young <=> images'[i].xcache = "HIT"
                /\ young => /\ images'[i].pc = "done" /\ images'[i].status = 200
                            /\ images'[i].data = e.data
                            /\ images'[i].contentType = e.contentType
                            /\ images'[i].fetches = 0
                /\ ~young => images'[i].pc = "fetch" /\ images'[i].fetches = 1
                /\ imageCache' = imageCache
       /\ (FetchEnds(i) /\ images'[i].status = 200) =>
            LET e == ImageGet(imageCache', images[i].url)
            IN  /\ images'[i].xcache = "MISS"
                /\ images'[i].fetches = 1
                /\ images[i].url \in CachedUrls(imageCache')
                /\ e.data = images'[i].data
                /\ e.contentType = images'[i].contentType
                /\ e.timestamp = now'
                /\ \E up \in UpstreamImages : images'[i].data = up.data]_vars

\* a HIT on an entry one millisecond short of its expiry, and a MISS for a
\* URL whose entry had reached the cache duration
C11_Witness ==
  \E i, j \in Images :
    /\ images[i].pc = "done" /\ images[i].xcache = "HIT"
    /\ now - ImageGet(imageCache, images[i].url).timestamp = IMAGE_CACHE_DURATION - 1
    /\ images[j].pc = "done" /\ images[j].xcache = "MISS"

\* C12: when the upstream answers with a non-2xx status, or the fetch throws,
\* proxyImage answers with that status, or with 500, and the image cache is
\* what it was: nothing stored, nothing evicted, and an expired entry for the
\* URL is neither refreshed nor served.
C12_FailureLeavesImageCache ==
  [][\A i \in Images :
       (FetchEnds(i) /\ images'[i].xcache # "MISS") =>
         /\ images'[i].status \in FailureStatuses \cup {500}
         /\ images'[i].xcache = ""
         /\ images'[i].data = ""
         /\ imageCache' = imageCache]_vars

\* a request answered 404 while the full cache holds an expired entry for
\* its URL
C12_Witness ==
  \E i \in Images :
    /\ images[i].pc = "done" /\ images[i].status \in FailureStatuses
    /\ Len(imageCache) = MAX_IMAGE_CACHE_SIZE
    /\ images[i].url \in CachedUrls(imageCache)
    /\ now - ImageGet(imageCache, images[i].url).timestamp >= IMAGE_CACHE_DURATION

----------------------------------------------------------------------------
(* Requests in flight together *)

\* requests t and u are both waiting for their adapter, for the same key
InFlightTogether(t, u) ==
  /\ t # u
  /\ tasks[t].pc = "await" /\ tasks[u].pc = "await"
  /\ tasks[t].cache = tasks[u].cache
  /\ tasks[t].key = tasks[u].key

\* C13: two requests that wait for their adapter at the same time for one
\* key have each invoked the adapter, and the one that ends is answered from
\* its own adapter call and not as cached.
C13_NoCoalescing ==
  [][\A t, u \in Tasks :
       InFlightTogether(t, u) =>
         /\ tasks[t].fetches = 1 /\ tasks[u].fetches = 1
         /\ tasks'[t].pc = "done" =>
              /\ ~ReportsCached(tasks'[t].response)
              /\ tasks'[t].fetches = 1
              /\ tasks'[u].pc = "await" /\ tasks'[u].fetches = 1
              /\ tasks'[t].response.status = "success" =>
                   tasks'[t].response.payload = tasks'[t].result]_vars

\* two requests for one key that started together have both ended with the
\* result of their own adapter call, and the results differ
C13_Witness ==
  \E t, u \in Tasks :
    /\ t < u
    /\ Succeeded(t) /\ Succeeded(u)
    /\ tasks[t].key = tasks[u].key
    /\ tasks[t].now = tasks[u].now
    /\ tasks[t].fetches = 1 /\ tasks[u].fetches = 1
    /\ tasks[u].cached = tasks[t].cached
    /\ tasks[t].response.payload # tasks[u].response.payload

----------------------------------------------------------------------------
(* Properties of the adapters *)

\* C14: a request fetches at most once for every fetch in the code of its
\* adapter, one fetch after the other; the step in which a fetch fails ends
\* the request with the error and issues no other fetch, and a request that
\* has ended does nothing more.  The same holds for proxyImage and its one
\* fetch.
C14_NoRetry ==
  [][/\ \A t \in Tasks :
          /\ tasks'[t].fetches \in {tasks[t].fetches, tasks[t].fetches + 1}
          /\ tasks'[t].fetches <= FetchCount(tasks'[t].adapter)
          /\ Len(tasks'[t].received) <= tasks'[t].fetches
          /\ tasks[t].pc = "done" => tasks'[t] = tasks[t]
          /\ Catches(t) =>
               /\ tasks'[t].fetches = tasks[t].fetches
               /\ \/ tasks'[t].response.status = "error"
                  \/ "error" \in tasks'[t].response.keys
     /\ \A i \in Images :
          /\ images'[i].fetches <= 1
          /\ images[i].pc = "done" => images'[i] = images[i]
          /\ (FetchEnds(i) /\ images'[i].xcache # "MISS") =>
               /\ images'[i].fetches = images[i].fetches
               /\ images'[i].status >= 400]_vars

\* a request whose adapter fetches twice has failed at its second fetch
C14_Witness ==
  \E t \in Tasks :
    /\ Failed(t)
    /\ FetchCount(tasks[t].adapter) = 2
    /\ tasks[t].fetches = 2
    /\ Len(tasks[t].received) = 2

\* the MangaDex adapters
MangadexAdapters == {"mangadexSearch", "mangadexInfo", "mangadexRead"}

\* the messages that mention rate limiting
RateLimitMessages ==
  {ErrorPrefix(a) \o "MangaDex API returned invalid response (possibly rate limited)" :
     a \in MangadexAdapters}

\* request t has stored nothing
StoredNothing(t) ==
  /\ tasks[t].stores = 0
  /\ tasks[t].key \in DOMAIN caches[tasks[t].cache]
       => caches[tasks[t].cache][tasks[t].key].writer # t

\* C15 as stated: a request to a MangaDex adapter whose upstream answered
\* with a 2xx status and a body that is no JSON ends with status "error", a
\* message that mentions rate limiting, and nothing stored.
C15_AsStated ==
  \A t \in Tasks :
    (/\ tasks[t].adapter \in MangadexAdapters
     /\ tasks[t].received = <<[ok |-> TRUE, body |-> "html"]>>)
    => /\ tasks[t].pc = "done"
       /\ tasks[t].response.status = "error"
       /\ tasks[t].response.message \in RateLimitMessages
       /\ StoredNothing(t)

\* C16 as stated: a request whose adapter received a response with a non-2xx
\* status ends with status "error" and stores nothing.
C16_AsStated ==
  \A t \in Tasks :
    (\E k \in DOMAIN tasks[t].received : ~tasks[t].received[k].ok)
    => /\ tasks[t].pc = "done"
       /\ tasks[t].response.status = "error"
       /\ StoredNothing(t)

----------------------------------------------------------------------------
(* Properties of what the adapters extract *)

\* the document given to getDetails carries no status indicator
LacksStatus(fn, input) ==
  CASE fn = "mangapillInfo" -> input.statusLink = "" /\ input.word = ""
    [] fn = "comickInfo" -> ~input.present
    [] fn = "mangadexInfo" -> input = ""

\* C17 as stated: getDetails of every provider gives a document without a
\* status indicator the status 'UNKNOWN'.
C17_AsStated ==
  (call.fn \in InfoAdapters /\ call.returned /\ LacksStatus(call.fn, call.input))
    => call.output = "UNKNOWN"

\* C18: the pages built from n extracted image URLs are n pages, and the
\* i-th page has the number i and the URL of the i-th extracted element.
C18_PagesInOrder ==
  (call.fn \in PageAdapters /\ call.returned /\ ~call.threw) =>
    LET extracted == IF call.fn = "mangadexRead" THEN call.input.chapter.data
                     ELSE call.input
        url(i) == CASE call.fn = "mangadexRead" ->
                         call.input.baseUrl \o "/data/" \o call.input.chapter.hash
                           \o "/" \o extracted[i]
                    [] call.fn = "comickChapter" -> comickImageUrl(extracted[i])
                    [] OTHER -> extracted[i]
    IN  /\ Len(call.output) = Len(extracted)
        /\ \A i \in 1..Len(extracted) :
             /\ call.output[i].page = i
             /\ call.output[i].img = url(i)

\* MaxPages pages were built from extracted URLs of which two are equal
C18_Witness ==
  /\ call.fn = "mangapillRead" /\ call.returned
  /\ Len(call.output) = MaxPages
  /\ call.input[1] = call.input[MaxPages]
  /\ call.input[1] # call.input[2]
  /\ call.output[MaxPages].page = MaxPages

\* the text in which every occurrence of an entity of the table, read from
\* left to right, is replaced by its character, and nothing else is changed
RECURSIVE DecodeKnownFrom(_, _)
DecodeKnownFrom(text, i) ==
  IF i > Len(text) THEN <<>>
  ELSE IF \E e \in entities :
            i + Len(e[1]) - 1 <= Len(text) /\ SubSeq(text, i, i + Len(e[1]) - 1) = e[1]
  THEN LET e == CHOOSE e \in entities :
                  i + Len(e[1]) - 1 <= Len(text) /\ SubSeq(text, i, i + Len(e[1]) - 1) = e[1]
       IN  <<e[2]>> \o DecodeKnownFrom(text, i + Len(e[1]))
  ELSE <<text[i]>> \o DecodeKnownFrom(text, i + 1)

\* C19 as stated: decodeHtmlEntities replaces every occurrence of a known
\* entity by its character and leaves the rest of the text unchanged, for
\* every text.
C19_AsStated ==
  (call.fn = "decodeHtmlEntities" /\ call.returned)
    => call.output = DecodeKnownFrom(call.input, 1)

----------------------------------------------------------------------------
(* Properties of the validation gate *)

\* the request carries the configured token, in the header or in the query
CarriesToken(request, env) ==
  request.authHeader = env.SECRET_TOKEN \/ request.queryToken = env.SECRET_TOKEN

\* the request passes "Check 1: Validate Origin"
PassesOriginCheck(request, env) ==
  \/ env.ALLOWED_ORIGIN \in {"", "*"}
  \/ request.origin = ""
  \/ norm(request.origin) \in allowedOrigins(env.ALLOWED_ORIGIN)

\* C20 as stated: with SECRET_TOKEN configured, a request that is not a
\* preflight and not for a public endpoint is given to a handler only if it
\* carries the token and passes the origin check; every other such request
\* is answered 401 and reaches no handler.
C20_AsStated ==
  LET request == call.input.request
      env == call.input.env
  IN  (/\ call.fn = "fetch" /\ call.returned
       /\ env.SECRET_TOKEN # ""
       /\ request.method # "OPTIONS"
       /\ request.pathname \notin PublicEndpoints)
        => IF CarriesToken(request, env) /\ PassesOriginCheck(request, env)
           THEN call.output.status # 401
           ELSE call.output.status = 401 /\ call.output.handler = ""

----------------------------------------------------------------------------
(* Properties of the cache durations *)

\* README.md, "Caching": the documented duration of each data type, in minutes
DocumentedMinutes ==
  [search |-> 5, info |-> 30, pages |-> 60, recent |-> 3, new |-> 10, home |-> 5,
   images |-> 60]

\* the data type a handler answers with
DataType(h) ==
  CASE h \in {"handleApiHome", "handleTrending"} -> "home"
    [] h \in {"handleInfo", "handleManhwaDetail", "handleComickInfo"} -> "info"
    [] h \in {"handleRead", "handleManhwaChapter", "handleComickChapter"} -> "pages"
    [] h = "handleRecentChapters" -> "recent"
    [] h = "handleNewManga" -> "new"
    [] OTHER -> "search"

\* the documented duration of the data type of handler h, in milliseconds
DocumentedDuration(h) == DocumentedMinutes[DataType(h)] * 60000

\* C21: a request is answered from the cache exactly when its key has an
\* entry whose age is below the duration documented for the data type of its
\* handler (search 5, info 30, pages 60, recent 3, new 10, home 5 minutes);
\* the duration of the image cache is the documented hour.
C21_DocumentedDurations ==
  [][/\ IMAGE_CACHE_DURATION = DocumentedMinutes.images * 60000
     /\ \A t \in Tasks :
          Enters(t) =>
            LET h == tasks'[t].handler
                c == Route(h).cache
                k == tasks'[t].key
            IN  ReportsCached(tasks'[t].response)
                  <=> /\ k \in DOMAIN caches[c]
                      /\ now - caches[c][k].timestamp < DocumentedDuration(h)]_vars

\* chapter pages served from the cache one millisecond short of the hour
C21_Witness ==
  \E t \in Tasks :
    /\ tasks[t].handler = "handleRead"
    /\ ReportsCached(tasks[t].response)
    /\ tasks[t].now - tasks[t].cached.timestamp = DocumentedMinutes.pages * 60000 - 1

----------------------------------------------------------------------------
(* Properties of komikstationManhwaChapter *)

\* the step in which request t is given a chapter page
GetsPage(t) == Len(tasks'[t].received) = Len(tasks[t].received) + 1

\* the ts_reader script of the page yields no image
ScriptYieldsNone(html) == html.script # "parsed" \/ Len(html.scriptImages) = 0

\* the readerarea div of the page yields no image
ReaderYieldsNone(html) == ~html.reader \/ Len(html.readerImages) = 0

\* C22: on a chapter page, komikstationManhwaChapter runs the readerarea
\* fallback exactly when the ts_reader script yields no image; the request
\* ends with the error 'Chapter images not found' and an unchanged cache
\* exactly when script and readerarea both yield none, and otherwise stores
\* and answers with success.
C22_FallbackThenError ==
  [][\A t \in Tasks :
       GetsPage(t) =>
         LET html == tasks'[t].received[Len(tasks'[t].received)]
             r == tasks'[t].response
         IN  /\ tasks'[t].scraped.fallback <=> ScriptYieldsNone(html)
             /\ tasks'[t].scraped.images =
                  (IF ScriptYieldsNone(html)
                   THEN (IF html.reader THEN html.readerImages ELSE <<>>)
                   ELSE html.scriptImages)
             /\ IF ScriptYieldsNone(html) /\ ReaderYieldsNone(html)
                THEN /\ r.status = "error"
                     /\ r.message = "Failed to fetch chapter: Chapter images not found"
                     /\ tasks'[t].stores = 0
                     /\ caches' = caches
                ELSE /\ r.status = "success"
                     /\ tasks'[t].stores = 1
                     /\ tasks'[t].key \in DOMAIN caches'[tasks'[t].cache]]_vars

\* a page whose script cannot be parsed and whose readerarea has an image was
\* answered with success through the fallback, and a page with neither was
\* answered with the error
C22_Witness ==
  \E t, u \in Tasks :
    /\ tasks[t].pc = "done" /\ tasks[t].received # <<>>
    /\ tasks[t].received[1].script = "unparsable"
    /\ tasks[t].scraped.fallback
    /\ tasks[t].response.status = "success"
    /\ tasks[u].pc = "done" /\ tasks[u].received # <<>>
    /\ tasks[u].scraped.fallback
    /\ tasks[u].response.message = "Failed to fetch chapter: Chapter images not found"

----------------------------------------------------------------------------
(* Properties of the empty results of the MangaPill scrapers *)

\* the step in which request t is given the response of its upstream
GetsResponse(t) == Len(tasks'[t].received) = Len(tasks[t].received) + 1

\* C23: when nothing matches in the page mangapillSearch or mangapillRead
\* fetched, the request is answered with success and the empty result, the
\* empty result is stored under the key, and a later request for the key is
\* answered from the cache with the empty result exactly while the entry is
\* younger than the TTL.
C23_EmptyResultCached ==
  [][\A t \in Tasks :
       /\ (GetsResponse(t) /\ tasks'[t].received[1].body = "html") =>
            /\ tasks'[t].adapter \in {"mangapillSearch", "mangapillRead"}
            /\ tasks'[t].response.status = "success"
            /\ tasks'[t].response.payload = "empty"
            /\ ~ReportsCached(tasks'[t].response)
            /\ tasks'[t].stores = 1
            /\ caches'[tasks'[t].cache][tasks'[t].key] =
                 [data |-> "empty", timestamp |-> tasks'[t].now, writer |-> t]
       /\ (Enters(t) /\ CacheGet(tasks'[t].cache, tasks'[t].key).data = "empty") =>
            LET e == CacheGet(tasks'[t].cache, tasks'[t].key)
            IN  IF now - e.timestamp < Route(tasks'[t].handler).ttl
                THEN /\ tasks'[t].pc = "done"
                     /\ ReportsCached(tasks'[t].response)
                     /\ tasks'[t].response.status = "success"
                     /\ tasks'[t].response.payload = "empty"
                     /\ tasks'[t].fetches = 0
                ELSE /\ tasks'[t].pc = "await"
                     /\ tasks'[t].fetches = 1]_vars

\* mangapillRead matched nothing, its empty result was stored, and a later
\* request was served that entry one millisecond before its expiry
C23_Witness ==
  \E t, u \in Tasks :
    /\ tasks[t].adapter = "mangapillRead"
    /\ tasks[t].stores = 1 /\ tasks[t].result = "empty"
    /\ tasks[u].pc = "done" /\ tasks[u].cached.writer = t
    /\ tasks[u].cached.data = "empty"
    /\ ReportsCached(tasks[u].response)
    /\ tasks[u].response.payload = "empty"
    /\ tasks[u].now - tasks[u].cached.timestamp = CACHE_DURATIONS.pages - 1

----------------------------------------------------------------------------
(* Properties of the abort timer *)

\* C24: when the 15 second timer of a komikstationManhwaPopular or
\* komikstationManhwaOngoing fetch fires while the fetch is pending, the
\* request ends in that step with an error envelope, without a cache write
\* and without another fetch; a request whose timer has fired is complete;
\* and a fetch does not stay pending once its timer is due.
C24_TimeoutEndsRequest ==
  /\ [][\A t \in Tasks :
          (tasks[t].pc = "await" /\ tasks'[t].timer = "fired") =>
            /\ tasks[t].adapter \in TimedAdapters
            /\ now - tasks[t].fetchStart >= FETCH_TIMEOUT
            /\ tasks'[t].pc = "done"
            /\ tasks'[t].response.status = "error"
            /\ tasks'[t].response.keys = {"status", "message"}
            /\ tasks'[t].stores = 0
            /\ tasks'[t].fetches = 1
            /\ caches' = caches]_vars
  /\ [](\A t \in Tasks :
          tasks[t].timer = "fired" =>
            /\ tasks[t].pc = "done"
            /\ tasks[t].response.status = "error"
            /\ tasks[t].stores = 0
            /\ tasks[t].fetches = 1)
  /\ \A t \in Tasks :
       (tasks[t].pc = "await" /\ tasks[t].timer = "armed"
          /\ now - tasks[t].fetchStart >= FETCH_TIMEOUT)
         ~> (tasks[t].pc # "await")

\* a fetch was aborted by its timer exactly 15 seconds after it started, and
\* the cache is still empty
C24_Witness ==
  \E t \in Tasks :
    /\ tasks[t].timer = "fired"
    /\ tasks[t].now = tasks[t].fetchStart
    /\ now - tasks[t].fetchStart = FETCH_TIMEOUT
    /\ tasks[t].response.message = "Failed to fetch manhwa popular: The operation was aborted"
    /\ caches["manhwaCache"] = <<>>

----------------------------------------------------------------------------
(* Properties of repeated invocations *)

----------------------------------------------------------------------------
(* Properties of the cache keys *)

\* C26 as stated: two requests that differ in operation or in a parameter
\* use different cache keys, also when a parameter contains ':', and a
\* request is served from the cache only what was computed for a request
\* with its own operation and parameters.
C26_AsStated ==
  \A t, u \in Tasks :
    (tasks[t].pc # "idle" /\ tasks[u].pc # "idle") =>
      /\ (tasks[t].handler # tasks[u].handler \/ tasks[t].args # tasks[u].args)
           => (tasks[t].cache # tasks[u].cache \/ tasks[t].key # tasks[u].key)
      /\ (ReportsCached(tasks[u].response) /\ tasks[u].cached.writer = t)
           => (tasks[t].handler = tasks[u].handler /\ tasks[t].args = tasks[u].args)

----------------------------------------------------------------------------
(* Properties of concurrent stores *)

\* C27: every store of a request replaces the entry of its key by the
\* request's own result and start time, whatever entry is there, and entries
\* change in no other step; so after two concurrent misses for one key that
\* both succeeded, the entry is the one of the request that stored last.
C27_LastWriteWins ==
  [][/\ \A t \in Tasks :
          Stores(t) =>
            caches'[tasks[t].cache][tasks[t].key] =
              [data |-> tasks'[t].result, timestamp |-> tasks[t].now, writer |-> t]
     /\ \A c \in CacheNames :
          caches'[c] # caches[c] =>
            \E t \in Tasks :
              /\ Stores(t) /\ tasks[t].cache = c
              /\ \A k \in DOMAIN caches[c] \ {tasks[t].key} :
                   k \in DOMAIN caches'[c] /\ caches'[c][k] = caches[c][k]]_vars

\* two misses for one key in flight together: the request that started
\* first stored last, and the entry holds its data and its earlier start time
C27_Witness ==
  \E t, u \in Tasks :
    /\ tasks[t].stores = 1 /\ tasks[u].stores = 1
    /\ tasks[t].cache = tasks[u].cache /\ tasks[t].key = tasks[u].key
    /\ tasks[t].now < tasks[u].now
    /\ tasks[t].result # tasks[u].result
    /\ caches[tasks[t].cache][tasks[t].key] =
         [data |-> tasks[t].result, timestamp |-> tasks[t].now, writer |-> t]

----------------------------------------------------------------------------
(* Properties of storing an image that is already cached *)

\* C28 as stated: a store of an image under a URL the cache already holds
\* leaves the number of entries and the set of cached URLs as they were,
\* also when the cache is full.
C28_AsStated ==
  [][\A i \in Images :
       (StoresImage(i) /\ images[i].url \in CachedUrls(imageCache)) =>
         /\ Len(imageCache') = Len(imageCache)
         /\ CachedUrls(imageCache') = CachedUrls(imageCache)]_vars

----------------------------------------------------------------------------
(* Properties of the page parameter *)

\* C29 as stated: the page of the cache key, the page the upstream is asked
\* for and the currentPage of the response are one integer that is at least
\* 1, and an absent, zero or non-numeric page parameter gives page 1.
C29_AsStated ==
  (call.fn = "page" /\ call.returned) =>
    /\ call.output.key = call.output.upstream
    /\ call.output.key = call.output.currentPage
    /\ call.output.key >= 1
    /\ (~call.input.present \/ call.input.value \in {"", "0", "abc"})
         => call.output.key = 1

----------------------------------------------------------------------------
(* Properties of the CORS header *)

\* C30 as stated: the Access-Control-Allow-Origin header of a response is
\* '*', and then ALLOWED_ORIGIN is unset or '*', or it is one origin of the
\* configured list; an Origin of the request that is not in the list is not
\* echoed.
C30_AsStated ==
  LET request == call.input.request
      env == call.input.env
      parts == {Split(env.ALLOWED_ORIGIN)[i] : i \in DOMAIN Split(env.ALLOWED_ORIGIN)}
  IN  (call.fn = "fetch" /\ call.returned) =>
        /\ \/ call.output.allowOrigin = "*" /\ env.ALLOWED_ORIGIN \in {"", "*"}
           \/ /\ env.ALLOWED_ORIGIN \notin {"", "*"}
              /\ call.output.allowOrigin \in parts \cup allowedOrigins(env.ALLOWED_ORIGIN)
        /\ (/\ env.ALLOWED_ORIGIN \notin {"", "*"}
            /\ request.origin # ""
            /\ norm(request.origin) \notin allowedOrigins(env.ALLOWED_ORIGIN))
             => call.output.allowOrigin \notin {request.origin, norm(request.origin)}

====
